---- MODULE Spec2Model ----
(***************************************************************************)
(* A model of micropyGPS.MicropyGPS (src/micropyGPS.py): the character     *)
(* level sentence assembler update(), its checksum, the dispatcher and the *)
(* eight sentence decoders, driven by an environment that feeds NMEA       *)
(* sentences, damaged sentences and garbage one character at a time.       *)
(*                                                                         *)
(* A character is a one-character string; the characters that have no      *)
(* printable form carry a name ("NUL", "TAB", "LF", "CR", "DEL", "HIGH").  *)
(* A Python str is a sequence of characters.  A Python float is an exact   *)
(* decimal [m, e] standing for m * 10^(-e); inf, nan and None have their   *)
(* own records.                                                            *)
(***************************************************************************)
EXTENDS Integers, Sequences, FiniteSets, TLC

VARIABLES
    self,     \* the MicropyGPS object: a record of its attributes
    ret,      \* outcome of the last update() call: None, a str, or an exception
    called,   \* message code of the decoder the last update() call invoked, or <<>>
    ch,       \* the character the last update() call was given
    menu,     \* name of the set of sentences the environment draws from
    sid,      \* index in the menu of the piece being fed (0: none yet)
    pos,      \* number of characters of that piece already fed
    snap,     \* statistics and Fix State as they were when that piece began
    junk,     \* number of garbage pieces fed in a row
    raised,   \* some update() call so far threw an exception
    log,      \* the pieces fed whole so far, in order (kept in the Logged menus)
    since     \* what time_since_fix() said when asked after the last call

vars == <<self, ret, called, ch, menu, sid, pos, snap, junk, raised, log, since>>

----------------------------------------------------------------------------
(* Characters: ord()                                                       *)

\* the printable ASCII characters, codes 32..126, in code order
Printable ==
    <<" ", "!", "QUOTE", "#", "$", "%", "&", "'", "(", ")", "*", "+", ",", "-", ".", "/",
      "0", "1", "2", "3", "4", "5", "6", "7", "8", "9", ":", ";", "<", "=", ">", "?",
      "@", "A", "B", "C", "D", "E", "F", "G", "H", "I", "J", "K", "L", "M", "N", "O",
      "P", "Q", "R", "S", "T", "U", "V", "W", "X", "Y", "Z", "[", "BACKSLASH", "]", "^", "_",
      "BACKTICK", "a", "b", "c", "d", "e", "f", "g", "h", "i", "j", "k", "l", "m", "n", "o",
      "p", "q", "r", "s", "t", "u", "v", "w", "x", "y", "z", "{", "|", "}", "~">>

OrdTable ==
    [c \in {Printable[i] : i \in 1..Len(Printable)} |->
        31 + (CHOOSE i \in 1..Len(Printable) : Printable[i] = c)]

\* ord(new_char)
Ord(c) ==
    CASE c = "NUL"  -> 0
      [] c = "TAB"  -> 9
      [] c = "LF"   -> 10
      [] c = "CR"   -> 13
      [] c = "DEL"  -> 127
      [] c = "HIGH" -> 233
      [] OTHER      -> OrdTable[c]

\* bit i of a
Bit(a, i) == (a \div (2 ^ i)) % 2

\* a ^ b, for a and b below 256 (character codes and their XORs)
Xor(a, b) ==
    LET x(i) == ((Bit(a, i) + Bit(b, i)) % 2) * (2 ^ i)
    IN  x(0) + x(1) + x(2) + x(3) + x(4) + x(5) + x(6) + x(7)

----------------------------------------------------------------------------
(* Python str operations                                                   *)

Min(a, b) == IF a < b THEN a ELSE b

\* s[a:b] for 0 <= a <= b
Slice(s, a, b) == SubSeq(s, a + 1, Min(b, Len(s)))

\* s[a:]
SliceFrom(s, a) == SubSeq(s, a + 1, Len(s))

\* seg[i] exists (0-based) / seg[i]
Has(seg, i) == i < Len(seg)
At(seg, i) == seg[i + 1]

IsSpace(c) == c \in {" ", "TAB", "LF", "CR"}
IsDigit(c) == c \in {"0", "1", "2", "3", "4", "5", "6", "7", "8", "9"}
DigitVal(c) == Ord(c) - 48

Lower(c) ==
    IF c \in DOMAIN OrdTable /\ OrdTable[c] >= 65 /\ OrdTable[c] <= 90
    THEN Printable[OrdTable[c] + 32 - 31] ELSE c

IsHexDigit(c) == IsDigit(c) \/ Lower(c) \in {"a", "b", "c", "d", "e", "f"}
HexVal(c) == IF IsDigit(c) THEN DigitVal(c) ELSE Ord(Lower(c)) - 87

\* str.strip() as int() and float() apply it
RECURSIVE LStrip(_)
LStrip(s) == IF s # <<>> /\ IsSpace(Head(s)) THEN LStrip(Tail(s)) ELSE s
RECURSIVE RStrip(_)
RStrip(s) ==
    IF s # <<>> /\ IsSpace(s[Len(s)]) THEN RStrip(SubSeq(s, 1, Len(s) - 1)) ELSE s
Strip(s) == RStrip(LStrip(s))

\* int() and float() allow one "_" between two digits
UnderscoresOk(s, digit(_)) ==
    \A i \in 1..Len(s) :
        s[i] = "_" => /\ i > 1 /\ i < Len(s)
                      /\ digit(s[i - 1]) /\ digit(s[i + 1])
DropUnderscores(s) == SelectSeq(s, LAMBDA c : c # "_")

RECURSIVE DecValue(_, _)
DecValue(s, acc) ==
    IF s = <<>> THEN acc ELSE DecValue(Tail(s), 10 * acc + DigitVal(Head(s)))
RECURSIVE HexValue(_, _)
HexValue(s, acc) ==
    IF s = <<>> THEN acc ELSE HexValue(Tail(s), 16 * acc + HexVal(Head(s)))

AllDigits(s) == \A i \in 1..Len(s) : IsDigit(s[i])
AllHex(s) == \A i \in 1..Len(s) : IsHexDigit(s[i])

Ok(v) == [ok |-> TRUE, v |-> v]
ValueError == [ok |-> FALSE, v |-> 0]

HasSign(s) == s # <<>> /\ Head(s) \in {"+", "-"}
Unsigned(s) == IF HasSign(s) THEN Tail(s) ELSE s
SignOf(s) == IF s # <<>> /\ Head(s) = "-" THEN -1 ELSE 1

\* int(s): [ok |-> TRUE, v |-> n], or ValueError; the text is stripped, then
\* split in its sign and its digits
ParseIntDigits(u, d, sg) ==
    IF u # <<>> /\ UnderscoresOk(u, IsDigit) /\ AllDigits(d)
    THEN Ok(sg * DecValue(d, 0))
    ELSE ValueError
ParseIntOf(s) ==
    ParseIntDigits(Unsigned(s), DropUnderscores(Unsigned(s)), SignOf(s))
ParseInt(str) == ParseIntOf(Strip(str))

\* int(s, 16) allows a 0x prefix, and one "_" after it
HexBody(u) ==
    IF Len(u) >= 2 /\ u[1] = "0" /\ Lower(u[2]) = "x"
    THEN (IF Len(u) >= 3 /\ u[3] = "_" THEN SliceFrom(u, 3) ELSE SliceFrom(u, 2))
    ELSE u
ParseHexDigits(p, d, sg) ==
    IF p # <<>> /\ UnderscoresOk(p, IsHexDigit) /\ AllHex(d)
    THEN Ok(sg * HexValue(d, 0))
    ELSE ValueError
ParseHexOf(s) ==
    ParseHexDigits(HexBody(Unsigned(s)), DropUnderscores(HexBody(Unsigned(s))),
                   SignOf(s))

\* the field read in base 10
ParseHexBase10(str) == ParseInt(str)
\* int(s, 16)
ParseHex(str) == ParseHexOf(Strip(str))

----------------------------------------------------------------------------
(* Python float: exact decimals, and float()                               *)

RECURSIVE Pow10(_)
Pow10(k) == IF k <= 0 THEN 1 ELSE 10 * Pow10(k - 1)

\* the unique record of the value m * 10^(-e)
RECURSIVE Norm(_, _)
Norm(m, e) ==
    IF m = 0 THEN [m |-> 0, e |-> 0]
    ELSE IF e < 0 THEN [m |-> m * Pow10(-e), e |-> 0]
    ELSE IF e > 0 /\ m % 10 = 0 THEN Norm(m \div 10, e - 1)
    ELSE [m |-> m, e |-> e]

FInt(n) == [m |-> n, e |-> 0]
Inf == [m |-> 1, e |-> -1]
NegInf == [m |-> -1, e |-> -1]
NaN == [m |-> 0, e |-> -1]
\* None, where the attribute otherwise holds a float
NoneF == [m |-> 0, e |-> -2]
IsFinite(x) == x.e >= 0

\* x * k for a finite k > 0
FMul(x, k) == IF IsFinite(x) THEN Norm(x.m * k.m, x.e + k.e) ELSE x

LowerStr(s) == [i \in 1..Len(s) |-> Lower(s[i])]

\* index of the first exponent letter of s, or 0
ExpAt(s) ==
    IF \E i \in 1..Len(s) : Lower(s[i]) = "e"
    THEN CHOOSE i \in 1..Len(s) :
            Lower(s[i]) = "e" /\ \A j \in 1..(i - 1) : Lower(s[j]) # "e"
    ELSE 0

DotAt(s) ==
    IF \E i \in 1..Len(s) : s[i] = "."
    THEN CHOOSE i \in 1..Len(s) : s[i] = "." /\ \A j \in 1..(i - 1) : s[j] # "."
    ELSE 0

\* a fraction without its trailing zeros, which do not change the value
RECURSIVE RStripZeros(_)
RStripZeros(s) ==
    IF s # <<>> /\ s[Len(s)] = "0" THEN RStripZeros(SubSeq(s, 1, Len(s) - 1)) ELSE s

\* float(s), step by step: the value of the digits ip.sig with exponent ev
FloatValue(sg, ip, sig, ev) ==
    Ok(Norm(sg * DecValue(ip \o sig, 0), Len(sig) - ev))

\* the digits of the integer part, the fraction and the exponent (x: index of
\* the exponent letter in u, or 0)
FloatDigits(u, sg, x, ip, fp, ed, esg) ==
    IF /\ UnderscoresOk(u, IsDigit)
       /\ AllDigits(ip) /\ AllDigits(fp) /\ ip \o fp # <<>>
       /\ (x # 0 => ed # <<>> /\ AllDigits(ed))
    THEN FloatValue(sg, ip, RStripZeros(fp),
                    IF x = 0 THEN 0 ELSE esg * DecValue(ed, 0))
    ELSE ValueError

\* the mantissa split at its dot d
FloatSplit(u, sg, x, mant, expo, d) ==
    FloatDigits(u, sg, x,
                DropUnderscores(IF d = 0 THEN mant ELSE SubSeq(mant, 1, d - 1)),
                DropUnderscores(IF d = 0 THEN <<>> ELSE SliceFrom(mant, d)),
                DropUnderscores(Unsigned(expo)), SignOf(expo))

FloatMantissa(u, sg, x, mant, expo) ==
    FloatSplit(u, sg, x, mant, expo, DotAt(mant))

\* the unsigned text split at its exponent letter x
FloatExponent(u, sg, x) ==
    FloatMantissa(u, sg, x,
                  IF x = 0 THEN u ELSE SubSeq(u, 1, x - 1),
                  IF x = 0 THEN <<>> ELSE SliceFrom(u, x))

\* inf, infinity and nan in any case, or a number
FloatWord(u, sg, low) ==
    IF low \in {<<"i", "n", "f">>, <<"i", "n", "f", "i", "n", "i", "t", "y">>}
    THEN Ok(IF sg = 1 THEN Inf ELSE NegInf)
    ELSE IF low = <<"n", "a", "n">> THEN Ok(NaN)
    ELSE FloatExponent(u, sg, ExpAt(u))

ParseFloatOf(s) == FloatWord(Unsigned(s), SignOf(s), LowerStr(Unsigned(s)))

\* float(s): [ok |-> TRUE, v |-> x], or ValueError
ParseFloat(str) == ParseFloatOf(Strip(str))

----------------------------------------------------------------------------
(* The object                                                              *)

\* SENTENCE_LIMIT
SENTENCE_LIMIT == 90

\* __HEMISPHERES
HEMISPHERES == {"N", "S", "E", "W"}

\* __NO_FIX
NO_FIX == 1

\* a dict with no entries
EmptyDict == [k \in {} |-> 0]

\* d[k] = v
Put(d, k, v) == (k :> v) @@ d

\* __init__(local_offset, location_formatting, century); local_offset in hours
init(local_offset, century) ==
    [ sentence_active    |-> FALSE,
      active_segment     |-> 0,
      process_crc        |-> FALSE,
      gps_segments       |-> <<>>,
      crc_xor            |-> 0,
      char_count         |-> 0,
      fix_time           |-> 0,
      crc_fails          |-> 0,
      clean_sentences    |-> 0,
      parsed_sentences   |-> 0,
      timestamp          |-> <<FInt(0), FInt(0), FInt(0)>>,
      date               |-> <<0, 0, 0>>,
      local_offset       |-> local_offset * 3600,
      century            |-> century,
      latitude           |-> <<0, FInt(0), <<"N">>>>,
      longitude          |-> <<0, FInt(0), <<"W">>>>,
      speed              |-> <<FInt(0), FInt(0), FInt(0)>>,
      course             |-> FInt(0),
      altitude           |-> FInt(0),
      geoid_height       |-> FInt(0),
      satellites_in_view |-> 0,
      satellites_in_use  |-> 0,
      satellites_used    |-> EmptyDict,
      last_sv_sentence   |-> 0,
      total_sv_sentences |-> 0,
      satellite_data     |-> EmptyDict,
      hdop               |-> Inf,
      pdop               |-> Inf,
      vdop               |-> Inf,
      valid              |-> FALSE,
      fix_stat           |-> 0,
      fix_type           |-> 1,
      dgps_age           |-> NoneF,
      dgps_station       |-> NoneF,
      talker             |-> <<>> ]

\* the clock (utime.ticks_ms() or time.time()), read in whole sentences: a
\* value other than 0 that is larger after every checksum-valid sentence
Clock(s) == s.clean_sentences + 1

\* new_fix_time(): the clock reading is kept
new_fix_time(s) == [s EXCEPT !.fix_time = Clock(s)]

\* time_since_fix() at the clock reading now: -1 when no fix was ever found,
\* else the milliseconds since the reading kept
time_since_fix(s, now) == IF s.fix_time = 0 THEN -1 ELSE (now - s.fix_time) * 1000

\* what a decoder or parse_time hands back: its result and the object after it
Returns(b, s) == [res |-> IF b THEN "True" ELSE "False", self |-> s]
Raises(exc, s) == [res |-> exc, self |-> s]

\* parse_time(utc_string), from its end: the timestamp of total_secs / k
\* seconds of the day, whose seconds keep e decimals
TimeOfDay(s, total_secs, k, e) ==
    Returns(TRUE, [s EXCEPT !.timestamp =
        << FInt(total_secs \div (3600 * k)),
           FInt((total_secs % (3600 * k)) \div (60 * k)),
           Norm(total_secs % (60 * k), e) >>])

\* the time of day moved by local_offset, in units of 1/k second
TimeLocal(s, hours, minutes, seconds, k) ==
    TimeOfDay(s, ((hours * 3600 + minutes * 60 + s.local_offset) * k + seconds.m)
                     % (86400 * k), k, seconds.e)

\* the three numbers of the field as int() and float() read them
TimeParsed(s, hours, minutes, seconds) ==
    IF ~(hours.ok /\ minutes.ok /\ seconds.ok) THEN Returns(FALSE, s)
    ELSE IF s.local_offset = 0
    THEN Returns(TRUE, [s EXCEPT !.timestamp =
                           <<FInt(hours.v), FInt(minutes.v), seconds.v>>])
    ELSE IF ~IsFinite(seconds.v)
    THEN Returns(TRUE, [s EXCEPT !.timestamp = <<NaN, NaN, NaN>>])
    ELSE TimeLocal(s, hours.v, minutes.v, seconds.v, Pow10(seconds.v.e))

\* parse_time(utc_string)
parse_time(s, utc_string) ==
    IF utc_string # <<>>
    THEN TimeParsed(s, ParseInt(Slice(utc_string, 0, 2)),
                       ParseInt(Slice(utc_string, 2, 4)),
                       ParseFloat(SliceFrom(utc_string, 4)))
    ELSE Returns(TRUE, [s EXCEPT !.timestamp = <<FInt(0), FInt(0), FInt(0)>>])

----------------------------------------------------------------------------
(* Sentence decoders.  Each takes the object and hands back Returns(True   *)
(* or False, object) or Raises(exception, object): an IndexError or a      *)
(* KeyError that the decoder does not catch leaves update() as it is.      *)
(* A decoder is written as the chain of its steps: each step takes what    *)
(* the steps before it have read (seg: gps_segments) and the object so far. *)

\* the latitude / longitude block shared by RMC, GLL, GGA and GNS: the four
\* fields from seg[i] on; ValueError when a number does not parse
LatLonParsed(seg, i, lat_degs, lat_mins, lon_degs, lon_mins) ==
    [ ok  |-> lat_degs.ok /\ lat_mins.ok /\ lon_degs.ok /\ lon_mins.ok,
      lat |-> <<lat_degs.v, lat_mins.v, At(seg, i + 1)>>,
      lon |-> <<lon_degs.v, lon_mins.v, At(seg, i + 3)>> ]
LatLon(seg, i) ==
    LatLonParsed(seg, i, ParseInt(Slice(At(seg, i), 0, 2)),
                         ParseFloat(SliceFrom(At(seg, i), 2)),
                         ParseInt(Slice(At(seg, i + 2), 0, 3)),
                         ParseFloat(SliceFrom(At(seg, i + 2), 3)))

\* a field holds exactly the one-character string c
Is(field, c) == field = <<c>>

\* lat_hemi in __HEMISPHERES, for a str of any length
InHemispheres(field) == Len(field) = 1 /\ field[1] \in HEMISPHERES

\* the block parsed, and both hemispheres known
LatLonOk(ll) == ll.ok /\ InHemispheres(ll.lat[3]) /\ InHemispheres(ll.lon[3])

\* (spd_knt, spd_knt * 1.151, spd_knt * 1.852)
SpeedTriple(spd_knt) ==
    <<spd_knt, FMul(spd_knt, [m |-> 1151, e |-> 3]), FMul(spd_knt, [m |-> 1852, e |-> 3])>>

\* float(field) if field else 0.0
FloatOrZero(field) == IF field # <<>> THEN ParseFloat(field) ELSE Ok(FInt(0))

\* int(seg[i]) / float(seg[i]) inside a try that also catches IndexError
IntIfHas(seg, i) == IF Has(seg, i) THEN ParseInt(At(seg, i)) ELSE ValueError
FloatIfHas(seg, i) == IF Has(seg, i) THEN ParseFloat(At(seg, i)) ELSE ValueError

\* the date block of gprmc: (day, month, year), or ValueError
RmcDateParsed(s, day, month, year) ==
    IF day.ok /\ month.ok /\ year.ok
    THEN Ok(<<day.v, month.v, year.v + 100 * s.century>>)
    ELSE ValueError
RmcDate(s, date_string) ==
    IF date_string # <<>>
    THEN RmcDateParsed(s, ParseInt(Slice(date_string, 0, 2)),
                          ParseInt(Slice(date_string, 2, 4)),
                          ParseInt(Slice(date_string, 4, 6)))
    ELSE Ok(<<0, 0, 0>>)

\* a fix whose position is stored before its speed is read
RmcFixEager(s1, ll, spd_knt, course) ==
    IF ~LatLonOk(ll) THEN Returns(FALSE, s1)
    ELSE IF ~spd_knt.ok
    THEN Returns(FALSE, [s1 EXCEPT !.latitude = ll.lat, !.longitude = ll.lon])
    ELSE IF ~course.ok THEN Returns(FALSE, s1)
    ELSE Returns(TRUE, new_fix_time(
            [s1 EXCEPT !.latitude = ll.lat,
                       !.longitude = ll.lon,
                       !.speed = SpeedTriple(spd_knt.v),
                       !.course = course.v,
                       !.valid = TRUE]))
\* gprmc(), the valid fix: position, speed and course
RmcFix(s1, ll, spd_knt, course) ==
    IF ~LatLonOk(ll) THEN Returns(FALSE, s1)
    ELSE IF ~spd_knt.ok THEN Returns(FALSE, s1)
    ELSE IF ~course.ok THEN Returns(FALSE, s1)
    ELSE Returns(TRUE, new_fix_time(
            [s1 EXCEPT !.latitude = ll.lat,
                       !.longitude = ll.lon,
                       !.speed = SpeedTriple(spd_knt.v),
                       !.course = course.v,
                       !.valid = TRUE]))

\* gprmc() that leaves the position of an earlier fix in place
RmcStatusKeeps(seg, s1) ==
    IF Is(At(seg, 2), "A")
    THEN RmcFix(s1, LatLon(seg, 3), ParseFloat(At(seg, 7)), FloatOrZero(At(seg, 8)))
    ELSE Returns(TRUE, [s1 EXCEPT !.valid = FALSE])
\* gprmc(), "if self.gps_segments[2] == 'A'"
RmcStatus(seg, s1) ==
    IF Is(At(seg, 2), "A")
    THEN RmcFix(s1, LatLon(seg, 3), ParseFloat(At(seg, 7)), FloatOrZero(At(seg, 8)))
    ELSE Returns(TRUE, [s1 EXCEPT !.latitude = <<0, FInt(0), <<"N">>>>,
                                  !.longitude = <<0, FInt(0), <<"W">>>>,
                                  !.speed = <<FInt(0), FInt(0), FInt(0)>>,
                                  !.course = FInt(0),
                                  !.valid = FALSE])

\* gprmc(), the date stamp
RmcDated(seg, s, date) ==
    IF ~date.ok THEN Returns(FALSE, s)
    ELSE RmcStatus(seg, [s EXCEPT !.date = date.v])

\* gprmc(), the UTC timestamp (t: what parse_time handed back)
RmcTimed(seg, s0, t) ==
    IF t.res # "True" THEN Returns(FALSE, s0)
    ELSE IF ~Has(seg, 9) THEN Raises("IndexError", t.self)
    ELSE RmcDated(seg, t.self, RmcDate(t.self, At(seg, 9)))

\* gprmc()
gprmc(s0) == RmcTimed(s0.gps_segments, s0, parse_time(s0, At(s0.gps_segments, 1)))

\* a GLL fix that leaves the fix timestamp alone
GllFixNoRefresh(s, ll) ==
    IF ~LatLonOk(ll) THEN Returns(FALSE, s)
    ELSE Returns(TRUE, [s EXCEPT !.latitude = ll.lat,
                                 !.longitude = ll.lon,
                                 !.valid = TRUE])
\* gpgll(), the valid fix
GllFix(s, ll) ==
    IF ~LatLonOk(ll) THEN Returns(FALSE, s)
    ELSE Returns(TRUE, new_fix_time(
            [s EXCEPT !.latitude = ll.lat,
                      !.longitude = ll.lon,
                      !.valid = TRUE]))

\* a GLL without a fix that leaves the flag as it was
GllTimedKeepsValid(seg, s0, t) ==
    IF t.res # "True" THEN Returns(FALSE, s0)
    ELSE IF ~Has(seg, 6) THEN Raises("IndexError", t.self)
    ELSE IF Is(At(seg, 6), "A") THEN GllFix(t.self, LatLon(seg, 1))
    ELSE Returns(TRUE, [t.self EXCEPT !.latitude = <<0, FInt(0), <<"N">>>>,
                                      !.longitude = <<0, FInt(0), <<"W">>>>])
\* gpgll(), "if self.gps_segments[6] == 'A'"
GllTimed(seg, s0, t) ==
    IF t.res # "True" THEN Returns(FALSE, s0)
    ELSE IF ~Has(seg, 6) THEN Raises("IndexError", t.self)
    ELSE IF Is(At(seg, 6), "A") THEN GllFix(t.self, LatLon(seg, 1))
    ELSE Returns(TRUE, [t.self EXCEPT !.latitude = <<0, FInt(0), <<"N">>>>,
                                      !.longitude = <<0, FInt(0), <<"W">>>>,
                                      !.valid = FALSE])

\* gpgll(), the UTC timestamp
GllSegments(seg, s0) ==
    IF ~Has(seg, 5) THEN Raises("IndexError", s0)
    ELSE GllTimed(seg, s0, parse_time(s0, At(seg, 5)))

\* gpgll()
gpgll(s0) == GllSegments(s0.gps_segments, s0)

\* gpvtg(), the speed
VtgSpeed(s0, course, spd_knt) ==
    IF ~spd_knt.ok THEN Returns(FALSE, s0)
    ELSE Returns(TRUE, [s0 EXCEPT !.speed = SpeedTriple(spd_knt.v),
                                  !.course = course.v])

\* gpvtg(), the course
VtgCourse(seg, s0, course) ==
    IF ~course.ok THEN Returns(FALSE, s0)
    ELSE IF ~Has(seg, 5) THEN Raises("IndexError", s0)
    ELSE VtgSpeed(s0, course, FloatOrZero(At(seg, 5)))

\* gpvtg()
gpvtg(s0) == VtgCourse(s0.gps_segments, s0, FloatOrZero(At(s0.gps_segments, 1)))

\* a count that is always stored
GgaSatellitesAlways(s, satellites_in_use) ==
    [s EXCEPT !.satellites_in_use = satellites_in_use]
\* the "if self.satellites_in_use <= 12 or satellites_in_use > 12" of gpgga
GgaSatellites(s, satellites_in_use) ==
    IF s.satellites_in_use <= 12 \/ satellites_in_use > 12
    THEN [s EXCEPT !.satellites_in_use = satellites_in_use]
    ELSE s

\* gpgga(), "if fix_stat: self.new_fix_time()"
GgaFixTime(s2, fix_stat) == IF fix_stat # 0 THEN new_fix_time(s2) ELSE s2

\* gpgga(), the object data after the position: satellites, hdop, fix_stat
GgaUpdate(s, satellites_in_use, fix_stat, hdop) ==
    GgaFixTime([GgaSatellites(s, satellites_in_use)
                    EXCEPT !.hdop = hdop, !.fix_stat = fix_stat], fix_stat)

\* gpgga(), altitude and geoid height: both, or 0 for both
GgaHeights(s1, ll, altitude, geoid_height) ==
    [s1 EXCEPT !.latitude = ll.lat,
               !.longitude = ll.lon,
               !.altitude = IF altitude.ok /\ geoid_height.ok
                            THEN altitude.v ELSE FInt(0),
               !.geoid_height = IF altitude.ok /\ geoid_height.ok
                                THEN geoid_height.v ELSE FInt(0)]

\* gpgga(), the geoid height is read once the altitude has parsed
GgaAltitude(seg, s1, ll, altitude, satellites_in_use, fix_stat, hdop) ==
    IF altitude.ok /\ ~Has(seg, 11) THEN Raises("IndexError", s1)
    ELSE Returns(TRUE, GgaUpdate(
            GgaHeights(s1, ll, altitude,
                       IF altitude.ok THEN ParseFloat(At(seg, 11)) ELSE ValueError),
            satellites_in_use, fix_stat, hdop))

\* gpgga(), "if fix_stat:" the position block
GgaFix(seg, s1, ll, satellites_in_use, fix_stat, hdop) ==
    IF ~LatLonOk(ll) THEN Returns(FALSE, s1)
    ELSE IF ~Has(seg, 9) THEN Raises("IndexError", s1)
    ELSE GgaAltitude(seg, s1, ll, ParseFloat(At(seg, 9)),
                     satellites_in_use, fix_stat, hdop)

\* gpgga() that reads the position whatever the fix status is
GgaNumbersAnyFix(seg, s1, satellites_in_use, fix_stat, hdop) ==
    IF ~(satellites_in_use.ok /\ fix_stat.ok) THEN Returns(FALSE, s1)
    ELSE GgaFix(seg, s1, LatLon(seg, 2), satellites_in_use.v, fix_stat.v,
                IF hdop.ok THEN hdop.v ELSE Inf)
\* gpgga(), the numbers read first
GgaNumbers(seg, s1, satellites_in_use, fix_stat, hdop) ==
    IF ~(satellites_in_use.ok /\ fix_stat.ok) THEN Returns(FALSE, s1)
    ELSE IF fix_stat.v # 0
    THEN GgaFix(seg, s1, LatLon(seg, 2), satellites_in_use.v, fix_stat.v,
                IF hdop.ok THEN hdop.v ELSE Inf)
    ELSE Returns(TRUE, GgaUpdate(s1, satellites_in_use.v, fix_stat.v,
                                 IF hdop.ok THEN hdop.v ELSE Inf))

\* gpgga(), the UTC timestamp
GgaTimed(seg, s0, t) ==
    IF t.res # "True" THEN Returns(FALSE, s0)
    ELSE GgaNumbers(seg, t.self, IntIfHas(seg, 7), IntIfHas(seg, 6),
                    FloatIfHas(seg, 8))

\* gpgga()
gpgga(s0) == GgaTimed(s0.gps_segments, s0, parse_time(s0, At(s0.gps_segments, 1)))

\* nmea_system_ids
nmea_system_ids ==
    (1 :> <<"G", "P">>) @@ (2 :> <<"G", "L">>) @@ (3 :> <<"G", "A">>) @@
    (4 :> <<"G", "B">>) @@ (5 :> <<"G", "Q">>) @@ (6 :> <<"G", "I">>)

\* fields read one after the other as numbers ("int" or "float"): "ok", or
\* the exception the first bad one throws (the field is missing: IndexError;
\* it does not parse: ValueError)
RECURSIVE FirstFail(_, _, _)
FirstFail(seg, idxs, kind) ==
    IF idxs = <<>> THEN "ok"
    ELSE IF ~Has(seg, Head(idxs)) THEN "IndexError"
    ELSE IF ~(IF kind = "int" THEN ParseInt(At(seg, Head(idxs)))
              ELSE ParseFloat(At(seg, Head(idxs)))).ok THEN "ValueError"
    ELSE FirstFail(seg, Tail(idxs), kind)

\* the PRN loop of gpgsa from "for sats in range(12)" at sats = k on
RECURSIVE GsaSats(_, _, _)
GsaSatNumber(seg, k, sats_used, sat_number) ==
    IF ~sat_number.ok THEN [st |-> "ValueError", set |-> sats_used]
    ELSE GsaSats(seg, k + 1, sats_used \cup {sat_number.v})
GsaSats(seg, k, sats_used) ==
    IF k = 12 THEN [st |-> "ok", set |-> sats_used]
    ELSE IF ~Has(seg, 3 + k) THEN [st |-> "IndexError", set |-> sats_used]
    ELSE IF At(seg, 3 + k) = <<>> THEN [st |-> "ok", set |-> sats_used]
    ELSE GsaSatNumber(seg, k, sats_used, ParseInt(At(seg, 3 + k)))

\* the PRNs of every tracked signal view, of every talker, that shares a PRN
\* with sats_used (the two nested loops over satellite_data of gpgsa)
GsaEvicted(s, sats_used) ==
    UNION { DOMAIN s.satellite_data[t][signum] :
              <<t, signum>> \in { <<t2, g>> \in
                    (DOMAIN s.satellite_data) \X
                    (UNION {DOMAIN s.satellite_data[t3] : t3 \in DOMAIN s.satellite_data}) :
                  /\ g \in DOMAIN s.satellite_data[t2]
                  /\ DOMAIN s.satellite_data[t2][g] \cap sats_used # {} } }

\* gpgsa(), the three DOP values (already known to parse)
GsaDop(seg, s) ==
    [s EXCEPT !.hdop = ParseFloat(At(seg, 16)).v,
              !.vdop = ParseFloat(At(seg, 17)).v,
              !.pdop = ParseFloat(At(seg, 15)).v]

\* gpgsa() that files the satellites under the talker of the sentence
GsaSystemOwnTalker(seg, s2, sats_used, systemID) ==
    IF systemID \notin DOMAIN nmea_system_ids
    THEN Raises("KeyError", s2)
    ELSE Returns(TRUE, GsaDop(seg,
            [s2 EXCEPT !.satellites_used = Put(@, s2.talker, sats_used)]))
\* gpgsa(), NMEA 4.10: the satellites go to the system named by systemID
GsaSystem(seg, s2, sats_used, systemID) ==
    IF systemID \notin DOMAIN nmea_system_ids
    THEN Raises("KeyError", s2)
    ELSE Returns(TRUE, GsaDop(seg,
            [s2 EXCEPT !.satellites_used =
                Put(@, nmea_system_ids[systemID], sats_used)]))

\* gpgsa(), older NMEA: the satellites go to the talker, whose satellites
\* tracked in the same signal views are replaced (used: what it had)
GsaTalker(seg, s2, sats_used, used) ==
    Returns(TRUE, GsaDop(seg,
        [s2 EXCEPT !.satellites_used =
            Put(@, s2.talker, (used \ GsaEvicted(s2, sats_used)) \cup sats_used)]))

\* int(field, 16), or 1 when it does not parse
HexOrOne(id) == IF id.ok THEN id.v ELSE 1

\* gpgsa(), "if len(self.gps_segments) >= 20"
GsaStore(seg, s2, sats_used) ==
    IF Len(seg) >= 20
    THEN GsaSystem(seg, s2, sats_used, HexOrOne(ParseHex(At(seg, 18))))
    ELSE GsaTalker(seg, s2, sats_used,
                   IF s2.talker \in DOMAIN s2.satellites_used
                   THEN s2.satellites_used[s2.talker] ELSE {})

\* gpgsa(), "if fix_type > self.__NO_FIX: self.new_fix_time()"
GsaFixTime(s1, fix_type) == IF fix_type > NO_FIX THEN new_fix_time(s1) ELSE s1

\* gpgsa(), what was read: the fix type, the PRNs, the DOP fields
GsaRead(seg, s0, fix_type, sats, dops) ==
    IF ~fix_type.ok THEN Returns(FALSE, s0)
    ELSE IF sats.st = "IndexError" THEN Raises("IndexError", s0)
    ELSE IF sats.st = "ValueError" THEN Returns(FALSE, s0)
    ELSE IF dops = "IndexError" THEN Raises("IndexError", s0)
    ELSE IF dops = "ValueError" THEN Returns(FALSE, s0)
    ELSE GsaStore(seg, GsaFixTime([s0 EXCEPT !.fix_type = fix_type.v], fix_type.v),
                  sats.set)

GsaSegments(seg, s0) ==
    IF ~Has(seg, 2) THEN Raises("IndexError", s0)
    ELSE GsaRead(seg, s0, ParseInt(At(seg, 2)), GsaSats(seg, 0, {}),
                 FirstFail(seg, <<15, 16, 17>>, "float"))

\* gpgsa()
gpgsa(s0) == GsaSegments(s0.gps_segments, s0)

\* int(field) or None, where the field may be missing
OrNone(n) == IF n.ok THEN <<n.v>> ELSE <<>>
IntOrNone(seg, i) == OrNone(IntIfHas(seg, i))

\* the satellite loop of gpgsv from "for sats in range(4, sat_segment_limit, 4)"
\* at index sats on: the dict of this sentence, or ValueError on a bad PRN
RECURSIVE GsvSats(_, _, _, _)
GsvSatId(seg, sats, sat_segment_limit, satellite_dict, sat_id) ==
    IF ~sat_id.ok THEN ValueError
    ELSE GsvSats(seg, sats + 4, sat_segment_limit,
                 Put(satellite_dict, sat_id.v,
                     <<IntOrNone(seg, sats + 1), IntOrNone(seg, sats + 2),
                       IntOrNone(seg, sats + 3)>>))
\* a satellite loop that gives up on an empty PRN
GsvSatsStrict(seg, sats, sat_segment_limit, satellite_dict) ==
    IF sats >= sat_segment_limit THEN Ok(satellite_dict)
    ELSE IF At(seg, sats) = <<>> THEN ValueError
    ELSE GsvSatId(seg, sats, sat_segment_limit, satellite_dict,
                  ParseInt(At(seg, sats)))
GsvSats(seg, sats, sat_segment_limit, satellite_dict) ==
    IF sats >= sat_segment_limit THEN Ok(satellite_dict)
    ELSE IF At(seg, sats) = <<>> THEN Ok(satellite_dict)
    ELSE GsvSatId(seg, sats, sat_segment_limit, satellite_dict,
                  ParseInt(At(seg, sats)))

\* a.update(b) on dicts
DictUpdate(a, b) == b @@ a

RECURSIVE SumOver(_, _)
SumPick(f, keys, k) == f[k] + SumOver(f, keys \ {k})
SumOver(f, keys) ==
    IF keys = {} THEN 0 ELSE SumPick(f, keys, CHOOSE x \in keys : TRUE)

\* the sum that finalises satellites_in_view
CountSatellites(satellite_data) ==
    SumOver([t \in DOMAIN satellite_data |->
                SumOver([g \in DOMAIN satellite_data[t] |->
                            Cardinality(DOMAIN satellite_data[t][g])],
                        DOMAIN satellite_data[t])],
            DOMAIN satellite_data)

\* gpgsv(), "if current_sv_sentence == num_sv_sentences"
GsvLast(s2, num_sv_sentences, current_sv_sentence) ==
    Returns(TRUE,
        IF current_sv_sentence = num_sv_sentences
        THEN [s2 EXCEPT !.satellites_in_view = CountSatellites(s2.satellite_data)]
        ELSE s2)

\* gpgsv() where every sentence replaces what the signal had
GsvMergeReplaces(s1, num_sv_sentences, current_sv_sentence, dict, signum, mine) ==
    GsvLast([s1 EXCEPT !.satellite_data =
                Put(@, s1.talker,
                    IF current_sv_sentence = 1 THEN (signum :> dict)
                    ELSE Put(mine, signum, dict))],
            num_sv_sentences, current_sv_sentence)
\* gpgsv(), the dict of this sentence goes to the signal signum of the
\* talker (mine: what the talker had): sentence 1 starts the talker anew
GsvMerge(s1, num_sv_sentences, current_sv_sentence, dict, signum, mine) ==
    GsvLast([s1 EXCEPT !.satellite_data =
                Put(@, s1.talker,
                    IF current_sv_sentence = 1 THEN (signum :> dict)
                    ELSE IF signum \in DOMAIN mine
                    THEN Put(mine, signum, DictUpdate(mine[signum], dict))
                    ELSE Put(mine, signum, dict))],
            num_sv_sentences, current_sv_sentence)

\* gpgsv(), the signal ID at index posn, when the sentence carries one
GsvSignal(seg, s1, num_sv_sentences, current_sv_sentence, dict, posn) ==
    IF Len(seg) % 4 # 1 /\ ~Has(seg, posn) THEN Raises("IndexError", s1)
    ELSE GsvMerge(s1, num_sv_sentences, current_sv_sentence, dict,
                  HexOrOne(IF Len(seg) % 4 # 1 THEN ParseHex(At(seg, posn))
                           ELSE ValueError),
                  IF s1.talker \in DOMAIN s1.satellite_data
                  THEN s1.satellite_data[s1.talker] ELSE EmptyDict)

\* gpgsv(), the satellites of this sentence
GsvDict(seg, s0, num_sv_sentences, current_sv_sentence, dict) ==
    IF ~dict.ok THEN Returns(FALSE, s0)
    ELSE GsvSignal(seg,
                   [s0 EXCEPT !.total_sv_sentences = num_sv_sentences,
                              !.last_sv_sentence = current_sv_sentence],
                   num_sv_sentences, current_sv_sentence, dict.v,
                   (Len(seg) \div 4) * 4)

\* gpgsv(), the three counts at the head of the sentence
GsvHead(seg, s0, head) ==
    IF head = "IndexError" THEN Raises("IndexError", s0)
    ELSE IF head = "ValueError" THEN Returns(FALSE, s0)
    ELSE GsvDict(seg, s0, ParseInt(At(seg, 1)).v, ParseInt(At(seg, 2)).v,
                 GsvSats(seg, 4, 4 * (Len(seg) \div 4), EmptyDict))

\* gpgsv()
gpgsv(s0) == GsvHead(s0.gps_segments, s0, FirstFail(s0.gps_segments, <<1, 2, 3>>, "int"))

\* a ZDA that stores the date and leaves the century
ZdaDateOnly(s, day, month, year) ==
    Returns(TRUE, [s EXCEPT !.date = <<day, month, year>>])
\* gpzda(), day, month and year
ZdaDate(s, day, month, year) ==
    Returns(TRUE, [s EXCEPT !.century = year \div 100,
                            !.date = <<day, month, year>>])

ZdaNumbers(seg, s, nums) ==
    IF nums = "IndexError" THEN Raises("IndexError", s)
    ELSE IF nums = "ValueError" THEN Returns(FALSE, s)
    ELSE ZdaDate(s, ParseInt(At(seg, 2)).v, ParseInt(At(seg, 3)).v,
                 ParseInt(At(seg, 4)).v)

\* gpzda(), the UTC timestamp
ZdaTimed(seg, s0, t) ==
    IF t.res # "True" THEN Returns(FALSE, s0)
    ELSE ZdaNumbers(seg, t.self, FirstFail(seg, <<2, 3, 4>>, "int"))

\* gpzda()
gpzda(s0) == ZdaTimed(s0.gps_segments, s0, parse_time(s0, At(s0.gps_segments, 1)))

\* the valid-fix letters of the GNS mode string
GNS_FIX_MODES == {"E", "F", "R", "A", "D"}

\* the last four reads of gpgns, each in its own try block, from the k-th on
RECURSIVE GnsTail(_, _)
GnsField(k) == CASE k = 1 -> 7 [] k = 2 -> 8 [] k = 3 -> 11 [] OTHER -> 12
GnsRead(s, k, n, x) ==
    GnsTail(
        CASE k = 1 -> IF n.ok THEN [s EXCEPT !.satellites_in_use = n.v] ELSE s
          [] k = 2 -> [s EXCEPT !.hdop = IF x.ok THEN x.v ELSE FInt(0)]
          [] k = 3 -> [s EXCEPT !.dgps_age = IF x.ok THEN x.v ELSE NoneF]
          [] OTHER -> [s EXCEPT !.dgps_station = IF x.ok THEN x.v ELSE NoneF],
        k + 1)
GnsTail(s, k) ==
    IF k > 4 THEN Returns(TRUE, s)
    ELSE IF ~Has(s.gps_segments, GnsField(k)) THEN Raises("IndexError", s)
    ELSE GnsRead(s, k, ParseInt(At(s.gps_segments, GnsField(k))),
                 ParseFloat(At(s.gps_segments, GnsField(k))))

\* gpgns(), altitude and geoid height: both, or 0 for both
GnsHeights(s1, ll, altitude, geoid_height) ==
    GnsTail(new_fix_time(
        [s1 EXCEPT !.latitude = ll.lat,
                   !.longitude = ll.lon,
                   !.altitude = IF altitude.ok /\ geoid_height.ok
                                THEN altitude.v ELSE FInt(0),
                   !.geoid_height = IF altitude.ok /\ geoid_height.ok
                                    THEN geoid_height.v ELSE FInt(0)]), 1)

\* gpgns(), the geoid height is read once the altitude has parsed
GnsAltitude(seg, s1, ll, altitude) ==
    IF altitude.ok /\ ~Has(seg, 10) THEN Raises("IndexError", s1)
    ELSE GnsHeights(s1, ll, altitude,
                    IF altitude.ok THEN ParseFloat(At(seg, 10)) ELSE ValueError)

\* a position block that is skipped when it is bad
GnsFixSkipped(seg, s1, ll) ==
    IF ~LatLonOk(ll) THEN GnsTail(s1, 1)
    ELSE IF ~Has(seg, 9) THEN Raises("IndexError", s1)
    ELSE GnsAltitude(seg, s1, ll, ParseFloat(At(seg, 9)))
\* gpgns(), the position block of a valid fix
GnsFix(seg, s1, ll) ==
    IF ~LatLonOk(ll) THEN Returns(FALSE, s1)
    ELSE IF ~Has(seg, 9) THEN Raises("IndexError", s1)
    ELSE GnsAltitude(seg, s1, ll, ParseFloat(At(seg, 9)))

\* gpgns(), "if any(mode in posMode for mode in 'EFRAD')"
GnsMode(seg, s1, posMode) ==
    IF \E i \in 1..Len(posMode) : posMode[i] \in GNS_FIX_MODES
    THEN GnsFix(seg, s1, LatLon(seg, 2))
    ELSE GnsTail(s1, 1)

\* gpgns(), the UTC timestamp
GnsTimed(seg, s0, t) ==
    IF t.res # "True" THEN Returns(FALSE, s0)
    ELSE IF ~Has(seg, 6) THEN Raises("IndexError", t.self)
    ELSE GnsMode(seg, t.self, At(seg, 6))

\* gpgns()
gpgns(s0) == GnsTimed(s0.gps_segments, s0, parse_time(s0, At(s0.gps_segments, 1)))

----------------------------------------------------------------------------
(* The stream assembler and the dispatcher                                 *)

\* supported_sentences: the message codes, and the call of the decoder of one
RMC == <<"R", "M", "C">>
GGA == <<"G", "G", "A">>
VTG == <<"V", "T", "G">>
GSA == <<"G", "S", "A">>
GSV == <<"G", "S", "V">>
GLL == <<"G", "L", "L">>
ZDA == <<"Z", "D", "A">>
GNS == <<"G", "N", "S">>

\* the table without its last entry
supported_sentences_short == {RMC, GGA, VTG, GSA, GSV, GLL, ZDA}
supported_sentences == {RMC, GGA, VTG, GSA, GSV, GLL, ZDA, GNS}

Decode(message, s) ==
    CASE message = RMC -> gprmc(s)
      [] message = GGA -> gpgga(s)
      [] message = VTG -> gpvtg(s)
      [] message = GSA -> gpgsa(s)
      [] message = GSV -> gpgsv(s)
      [] message = GLL -> gpgll(s)
      [] message = ZDA -> gpzda(s)
      [] message = GNS -> gpgns(s)

\* no alias is applied
talker_aliases_none(talker) == talker
\* talker_aliases.get(talker, talker)
talker_aliases(talker) ==
    CASE talker = <<"B", "D">> -> <<"G", "B">>
      [] talker = <<"P", "Q">> -> <<"G", "Q">>
      [] talker = <<"Q", "Z">> -> <<"G", "Q">>
      [] OTHER -> talker

\* talkers
talkers ==
    { <<"G", "P">>, <<"G", "L">>, <<"G", "A">>, <<"G", "B">>,
      <<"G", "I">>, <<"G", "Q">>, <<"G", "N">> }

\* new_sentence() that keeps the running checksum of the sentence before
new_sentence_keeps_crc(s) ==
    [s EXCEPT !.gps_segments = << <<>> >>,
              !.active_segment = 0,
              !.sentence_active = TRUE,
              !.process_crc = TRUE,
              !.char_count = 0]
\* new_sentence() that does not switch the checksum back on
new_sentence_crc_off(s) ==
    [s EXCEPT !.gps_segments = << <<>> >>,
              !.active_segment = 0,
              !.crc_xor = 0,
              !.sentence_active = TRUE,
              !.char_count = 0]
\* new_sentence()
new_sentence(s) ==
    [s EXCEPT !.gps_segments = << <<>> >>,
              !.active_segment = 0,
              !.crc_xor = 0,
              !.sentence_active = TRUE,
              !.process_crc = TRUE,
              !.char_count = 0]

\* what update() returns or throws
None == [kind |-> "None", val |-> <<>>]
Str(v) == [kind |-> "str", val |-> v]
Exception(exc) == [kind |-> "raise", val |-> <<exc>>]

\* the outcome of one update() call: the object after it, what the call
\* returned or threw, and the message code of the decoder it invoked
Out(s, r, message) == [self |-> s, ret |-> r, called |-> message]

\* the limit applied to the field being received, not to the sentence
LimitCheckField(s, message) ==
    Out(IF Len(At(s.gps_segments, s.active_segment)) > SENTENCE_LIMIT
        THEN [s EXCEPT !.sentence_active = FALSE] ELSE s,
        None, message)
\* "if self.char_count > self.SENTENCE_LIMIT" and the final "return None"
LimitCheck(s, message) ==
    Out(IF s.char_count > SENTENCE_LIMIT THEN [s EXCEPT !.sentence_active = FALSE] ELSE s,
        None, message)

\* the header rebuilt from the normalised talker
HeaderNormalised(s) == s.talker \o SliceFrom(At(s.gps_segments, 0), 2)
\* the value update() returns for a decoded sentence
Header(s) == At(s.gps_segments, 0)

\* the "if valid_sentence:" block of update(), from its end: what the
\* decoder handed back (r) decides what update() returns
Decoded(r, message) ==
    CASE r.res = "True" ->
            Out([r.self EXCEPT !.parsed_sentences = @ + 1], Str(Header(r.self)), message)
      [] r.res = "False" -> LimitCheck(r.self, message)
      [] OTHER -> Out(r.self, Exception(r.res), message)

\* "if message in self.supported_sentences and self.talker in self.talkers"
Lookup(s1, message) ==
    IF message \in supported_sentences /\ s1.talker \in talkers
    THEN Decoded(Decode(message, s1), message)
    ELSE LimitCheck(s1, <<>>)

\* a sentence that is not counted as clean
SplitUncounted(s, header) ==
    Lookup([s EXCEPT !.sentence_active = FALSE,
                     !.talker = talker_aliases(Slice(header, 0, 2))],
           SliceFrom(header, 2))
\* the sentence is counted, and its header split in talker and message
Split(s, header) ==
    Lookup([s EXCEPT !.clean_sentences = @ + 1,
                     !.sentence_active = FALSE,
                     !.talker = talker_aliases(Slice(header, 0, 2))],
           SliceFrom(header, 2))

\* the "if valid_sentence:" block of update()
Dispatch(s) == Split(s, At(s.gps_segments, 0))

\* the range with DEL let in
AcceptedWithDel(ascii_char) == 10 <= ascii_char /\ ascii_char <= 127
\* the range of characters update() accepts
Accepted(ascii_char) == 10 <= ascii_char /\ ascii_char <= 126

\* the checksum keeps running after the "*"
CrcUpdateAlways(s, ascii_char) == [s EXCEPT !.crc_xor = Xor(@, ascii_char)]
\* self.crc_xor ^= ascii_char
CrcUpdate(s, ascii_char) ==
    IF s.process_crc THEN [s EXCEPT !.crc_xor = Xor(@, ascii_char)] ELSE s

\* the branch of update() for a character other than "$" and "*" while a
\* sentence is active, from its end: "if valid_sentence:", or the limit check
Completed(s4, valid_sentence) ==
    IF valid_sentence THEN Dispatch(s4) ELSE LimitCheck(s4, <<>>)

\* a comparison that counts a malformed field as a failure
ComparedCountsMalformed(s2, new_char, compare, final_crc) ==
    Completed(CrcUpdate(IF compare /\ ~(final_crc.ok /\ s2.crc_xor = final_crc.v)
                        THEN [s2 EXCEPT !.crc_fails = @ + 1] ELSE s2,
                        Ord(new_char)),
              compare /\ final_crc.ok /\ s2.crc_xor = final_crc.v)
\* the two checksum digits (compare: they have both arrived) against crc_xor
Compared(s2, new_char, compare, final_crc) ==
    Completed(CrcUpdate(IF compare /\ final_crc.ok /\ s2.crc_xor # final_crc.v
                        THEN [s2 EXCEPT !.crc_fails = @ + 1] ELSE s2,
                        Ord(new_char)),
              compare /\ final_crc.ok /\ s2.crc_xor = final_crc.v)

\* the field the character went to
Stored(s2, new_char, field) ==
    Compared(s2, new_char, new_char # "," /\ ~s2.process_crc /\ Len(field) = 2,
             ParseHex(field))

\* a "," opens the next field, any other character joins the active one
Segmented(s2, new_char) ==
    Stored(s2, new_char, At(s2.gps_segments, s2.active_segment))

\* a "," that opens two fields
StoreTwoFields(s1, new_char) ==
    Segmented(IF new_char = ","
              THEN [s1 EXCEPT !.active_segment = @ + 1,
                              !.gps_segments = Append(Append(@, <<>>), <<>>)]
              ELSE [s1 EXCEPT !.gps_segments[s1.active_segment + 1] =
                                    Append(@, new_char)],
              new_char)
Store(s1, new_char) ==
    Segmented(IF new_char = ","
              THEN [s1 EXCEPT !.active_segment = @ + 1,
                              !.gps_segments = Append(@, <<>>)]
              ELSE [s1 EXCEPT !.gps_segments[s1.active_segment + 1] =
                                    Append(@, new_char)],
              new_char)

\* update(new_char), after "self.char_count += 1"
Printed(s1, new_char) ==
    IF new_char = "$" THEN Out(new_sentence(s1), None, <<>>)
    ELSE IF s1.sentence_active
    THEN IF new_char = "*"
         THEN Out([s1 EXCEPT !.process_crc = FALSE,
                             !.active_segment = @ + 1,
                             !.gps_segments = Append(@, <<>>)], None, <<>>)
         ELSE Store(s1, new_char)
    ELSE Out(s1, None, <<>>)

\* update(new_char)
update(s, new_char) ==
    IF Accepted(Ord(new_char))
    THEN Printed([s EXCEPT !.char_count = @ + 1], new_char)
    ELSE Out(s, None, <<>>)

----------------------------------------------------------------------------
(* The sentences the environment feeds                                     *)

DigitChar(d) == Printable[17 + d]
HexChar(d) == IF d < 10 THEN DigitChar(d) ELSE Printable[24 + d]

\* n in decimal, w digits wide
RECURSIVE Dec(_, _)
Dec(n, w) == IF w = 0 THEN <<>> ELSE Append(Dec(n \div 10, w - 1), DigitChar(n % 10))

\* ip.fp with the given widths, as in 4807.038
Fx(ip, iw, fp, fw) == Dec(ip, iw) \o <<".">> \o Dec(fp, fw)

RECURSIVE Join(_)
Join(fields) ==
    IF Len(fields) = 1 THEN fields[1]
    ELSE fields[1] \o <<",">> \o Join(Tail(fields))

RECURSIVE Rep(_, _)
Rep(c, n) == IF n = 0 THEN <<>> ELSE <<c>> \o Rep(c, n - 1)

\* the NMEA checksum of a sentence body: the XOR of its character codes
RECURSIVE XorAll(_, _)
XorAll(body, acc) ==
    IF body = <<>> THEN acc
    ELSE LET x == Xor(acc, Ord(Head(body)))
         IN  IF x >= 0 THEN XorAll(Tail(body), x) ELSE x
Checksum(body) == XorAll(body, 0)

Hex2(n) == <<HexChar(n \div 16), HexChar(n % 16)>>

\* "$" body "*" and the two checksum digits; the same with wrong digits
Frame(body) == <<"$">> \o body \o <<"*">> \o Hex2(Checksum(body))
BadFrame(body) == <<"$">> \o body \o <<"*">> \o Hex2(Xor(Checksum(body), 17))

GP == <<"G", "P">>
GN == <<"G", "N">>
BD == <<"B", "D">>

Lat == Fx(4807, 4, 38, 3)
Lon == Fx(1131, 5, 0, 3)
Time == Dec(123519, 6)

\* well-formed sentence bodies, one per message type, for talker t
BodyRMC(t, time) ==
    Join(<< t \o RMC, time, <<"A">>, Lat, <<"N">>, Lon, <<"E">>, Fx(22, 3, 4, 1),
            Fx(84, 3, 4, 1), Dec(230394, 6), Fx(3, 3, 1, 1), <<"W">> >>)
\* the latitude minutes carry `pad` more zeros
BodyGGA(t, pad) ==
    Join(<< t \o GGA, Time, Lat \o Rep("0", pad), <<"N">>, Lon, <<"E">>, <<"1">>,
            Dec(8, 2), Fx(0, 1, 9, 1), Fx(545, 3, 4, 1), <<"M">>, Fx(46, 2, 9, 1),
            <<"M">>, <<>>, <<>> >>)
BodyVTG(t) ==
    Join(<< t \o VTG, Fx(54, 3, 7, 1), <<"T">>, Fx(34, 3, 4, 1), <<"M">>, Fx(5, 3, 5, 1),
            <<"N">>, Fx(10, 3, 2, 1), <<"K">> >>)
GsaFields(t) ==
    << t \o GSA, <<"A">>, <<"3">>, Dec(4, 2), Dec(5, 2), Dec(9, 2), <<>>, <<>>, <<>>,
       <<>>, <<>>, <<>>, <<>>, <<>>, <<>>, Fx(2, 1, 5, 1), Fx(1, 1, 3, 1), Fx(2, 1, 1, 1) >>
BodyGSA(t) == Join(GsaFields(t))
\* with the system-ID field of NMEA 4.10
BodyGSAid(t, id) == Join(Append(GsaFields(t), id))
BodyGSV(t) ==
    Join(<< t \o GSV, <<"1">>, <<"1">>, Dec(2, 2), Dec(1, 2), Dec(40, 2), Dec(83, 3),
            Dec(46, 2), Dec(2, 2), Dec(17, 2), Dec(308, 3), Dec(41, 2) >>)
BodyGLL(t) ==
    Join(<< t \o GLL, Fx(4916, 4, 45, 2), <<"N">>, Fx(12311, 5, 12, 2), <<"W">>,
            Dec(225444, 6), <<"A">> >>)
BodyZDA(t) ==
    Join(<< t \o ZDA, Fx(201530, 6, 0, 2), Dec(4, 2), Dec(7, 2), Dec(2002, 4),
            Dec(0, 2), Dec(0, 2) >>)
BodyGNS(t) ==
    Join(<< t \o GNS, Time, Lat, <<"N">>, Lon, <<"E">>, <<"A", "N">>, Dec(10, 2),
            Fx(0, 1, 9, 1), Fx(545, 3, 4, 1), Fx(46, 2, 9, 1), <<>>, <<>> >>)

\* the eight of them for one talker
GoodBodies(t) ==
    << BodyRMC(t, Time), BodyGGA(t, 0), BodyVTG(t), BodyGSA(t), BodyGSV(t), BodyGLL(t),
       BodyZDA(t), BodyGNS(t) >>

\* a GGA body of exactly n characters
BodyGGAOfLen(t, n) == BodyGGA(t, n - Len(BodyGGA(t, 0)))

\* a piece of input: its characters, and whether it is a well-formed sentence
\* of a supported type from a recognised talker
Piece(txt, wellformed) == [txt |-> txt, good |-> wellformed]

Good(bodies) == [i \in 1..Len(bodies) |-> Piece(Frame(bodies[i]), TRUE)]

\* every message type from one talker
TalkerMenu(t) == Good(GoodBodies(t))

\* a GSA with a system ID, and GGA sentences around the length limit, with
\* right and with wrong checksum digits
LimitMenu ==
    Good(<< BodyGSAid(GN, <<"3">>), BodyGGAOfLen(GP, 87), BodyGGAOfLen(GP, 88),
            BodyGGAOfLen(GP, 89), BodyGGAOfLen(GP, 91) >>)
    \o << Piece(BadFrame(BodyGGAOfLen(GP, 88)), FALSE),
          Piece(BadFrame(BodyGGAOfLen(GP, 89)), FALSE),
          Piece(<<"$">> \o BodyGGAOfLen(GP, 90) \o <<"*", "*">>, FALSE) >>

\* sentences that exercise the assembler and the dispatcher: good ones,
\* damaged ones, ones the dispatcher drops, ones a decoder rejects or chokes
\* on, an overlong one, and garbage between sentences
AsmMenu ==
    Good(<< BodyRMC(GP, Time), BodyGSA(BD), BodyGSV(<<"G", "L">>), BodyGGAOfLen(GN, 88) >>)
    \o << Piece(BadFrame(BodyRMC(GP, Time)), FALSE),
          Piece(<<"$">> \o BodyVTG(GP) \o <<"*", "Z", "Z">>, FALSE),
          Piece(Frame(Join(<< GP \o <<"X", "Y", "Z">>, <<"1">> >>)), FALSE),
          Piece(Frame(BodyRMC(<<"X", "X">>, Time)), FALSE),
          Piece(Frame(BodyRMC(<<"G", "P", "X">>, Time)), FALSE),
          Piece(Frame(<<>>), FALSE),
          Piece(Frame(GP \o VTG), FALSE),
          Piece(Frame(Join(<< GP \o GSA, <<"A">>, <<"3">> >>)), FALSE),
          Piece(Frame(BodyGSAid(GN, <<"7">>)), FALSE),
          Piece(Frame(BodyRMC(GP, <<"1", "2", "X", "5", "1", "9">>)), FALSE),
          Piece(Frame(BodyGGAOfLen(GP, 89)), TRUE),
          Piece(<<"$">> \o GP \o RMC \o <<",">> \o Rep("7", 40) \o <<",">> \o Rep("1", 50),
                FALSE),
          Piece(<<"CR", "LF">>, FALSE),
          Piece(<<"X", ",", "4", "2">>, FALSE) >>

GL == <<"G", "L">>

\* RMC sentences without and with a fix, positions with hemisphere letters
\* that are swapped or unknown, and ZDA sentences that set and do not set the
\* century
DateMenu ==
    Good(<< Join(<< GP \o RMC, Time, <<"V">>, <<>>, <<>>, <<>>, <<>>, <<>>, <<>>,
                    Dec(230394, 6), <<>>, <<>> >>),
            Join(<< GP \o RMC, Time, <<"V">>, Lat, <<"N">>, Lon, <<"E">>, Fx(22, 3, 4, 1),
                    Fx(84, 3, 4, 1), Dec(10203, 6), <<>>, <<>> >>),
            BodyRMC(GP, Time),
            Join(<< GP \o RMC, Dec(81836, 6), <<"A">>, Fx(3751, 4, 65, 2), <<"S">>,
                    Fx(14507, 5, 36, 2), <<"W">>, Fx(0, 3, 5, 1), <<>>, Dec(130998, 6),
                    Fx(11, 3, 3, 1), <<"E">> >>),
            Join(<< GP \o ZDA, Fx(201530, 6, 0, 2), Dec(4, 2), Dec(7, 2), Dec(2104, 4),
                    Dec(0, 2), Dec(0, 2) >>) >>)
    \o << Piece(Frame(Join(<< GP \o RMC, Time, <<"A">>, Lat, <<"E">>, Lon, <<"N">>,
                              Fx(22, 3, 4, 1), Fx(84, 3, 4, 1), Dec(230394, 6),
                              <<>>, <<>> >>)), FALSE),
          Piece(Frame(Join(<< GP \o RMC, Time, <<"A">>, Lat, <<"X">>, Lon, <<"E">>,
                              Fx(22, 3, 4, 1), Fx(84, 3, 4, 1), Dec(230394, 6),
                              <<>>, <<>> >>)), FALSE),
          Piece(Frame(Join(<< GP \o GLL, Fx(4916, 4, 45, 2), <<"N">>, Fx(12311, 5, 12, 2),
                              <<"Q">>, Dec(225444, 6), <<"A">> >>)), FALSE),
          Piece(Frame(Join(<< GP \o GGA, Time, Lat, <<"n">>, Lon, <<"E">>, <<"1">>,
                              Dec(8, 2), Fx(0, 1, 9, 1), Fx(545, 3, 4, 1), <<"M">>,
                              Fx(46, 2, 9, 1), <<"M">>, <<>>, <<>> >>)), FALSE),
          Piece(Frame(Join(<< GN \o GNS, Time, Lat, <<"N">>, Lon, <<"E", "W">>,
                              <<"A", "N">>, Dec(10, 2), Fx(0, 1, 9, 1), Fx(545, 3, 4, 1),
                              Fx(46, 2, 9, 1), <<>>, <<>> >>)), FALSE),
          Piece(Frame(Join(<< GP \o ZDA, Fx(201530, 6, 0, 2), Dec(4, 2), <<"J", "u", "l">>,
                              Dec(1999, 4), Dec(0, 2), Dec(0, 2) >>)), FALSE),
          Piece(Frame(Join(<< GN \o GNS, Time, <<"4", "8", "x", "7">>, <<"N">>, Lon, <<"E">>,
                              <<"A", "N">>, Dec(10, 2), Fx(0, 1, 9, 1), Fx(545, 3, 4, 1),
                              Fx(46, 2, 9, 1), Fx(2, 1, 5, 1), Dec(31, 4) >>)), FALSE) >>

\* a GGA body with the given fix status, satellite count, latitude and altitude
BodyGGAWith(fix, sats, lat, alt) ==
    Join(<< GP \o GGA, Time, lat, <<"N">>, Lon, <<"E">>, fix, sats, Fx(1, 1, 2, 1),
            alt, <<"M">>, Fx(46, 2, 9, 1), <<"M">>, <<>>, <<>> >>)

\* GGA sentences with and without a fix and with satellite counts on both
\* sides of 12, and GNS sentences that report more than 12 satellites
GgaMenu ==
    Good(<< BodyGGA(GP, 0),
            BodyGGAWith(<<"0">>, Dec(5, 2), Fx(5130, 4, 5, 1), Fx(12, 3, 0, 1)),
            BodyGGAWith(<<"2">>, Dec(15, 2), Fx(5130, 4, 5, 1), Fx(12, 3, 0, 1)),
            BodyGGAWith(<<"1">>, Dec(12, 2), Fx(5130, 4, 5, 1), <<>>),
            Join(<< GN \o GNS, Time, Lat, <<"N">>, Lon, <<"E">>, <<"A", "A">>, Dec(20, 2),
                    Fx(0, 1, 9, 1), Fx(545, 3, 4, 1), Fx(46, 2, 9, 1), <<>>, <<>> >>),
            Join(<< GN \o GNS, Time, Lat, <<"N">>, Lon, <<"E">>, <<"N", "N">>, Dec(14, 2),
                    Fx(0, 1, 9, 1), Fx(545, 3, 4, 1), Fx(46, 2, 9, 1), <<>>, <<>> >>) >>)

\* a GSA body with the given PRNs (at most 12) and, when id is not <<>>, the
\* system-ID field
BodyGSAWith(t, prns, id) ==
    Join(<< t \o GSA, <<"A">>, <<"3">> >> \o prns
         \o [i \in 1..(12 - Len(prns)) |-> <<>>]
         \o << Fx(2, 1, 5, 1), Fx(1, 1, 3, 1), Fx(2, 1, 1, 1) >>
         \o (IF id = <<>> THEN << >> ELSE <<id>>))

\* GSA sentences without and with a system ID, from several talkers
GsaMenu ==
    Good(<< BodyGSA(GP),
            BodyGSAWith(GL, << Dec(65, 2), Dec(66, 2) >>, <<>>),
            BodyGSAWith(GN, << Dec(70, 2), Dec(71, 2), Dec(72, 2) >>, <<"2">>),
            BodyGSAWith(GP, << Dec(11, 2), Dec(12, 2) >>, <<"3">>),
            BodyGSAWith(GN, << Dec(2, 2), Dec(30, 2) >>, <<"1">>),
            BodyGSAWith(BD, << Dec(21, 2) >>, <<"0", "x", "6">>) >>)

\* a GSV body: sentence k of n, the PRNs it lists (each with elevation,
\* azimuth and SNR), and, when sig is not <<>>, the signal-ID field
RECURSIVE GsvDetails(_)
GsvDetails(prns) ==
    IF prns = <<>> THEN << >>
    ELSE << Dec(prns[1], 2), Dec(40, 2), Dec(83, 3), Dec(46, 2) >> \o GsvDetails(Tail(prns))
BodyGSVWith(t, n, k, prns, sig) ==
    Join(<< t \o GSV, Dec(n, 1), Dec(k, 1), Dec(10, 2) >> \o GsvDetails(prns)
         \o (IF sig = <<>> THEN << >> ELSE <<sig>>))

\* a GSV sequence of three sentences from GP, and one of two sentences that
\* carry a signal ID from GL
GsvMenu ==
    Good(<< BodyGSVWith(GP, 3, 1, <<1, 2, 3, 4>>, <<>>),
            BodyGSVWith(GP, 3, 2, <<5, 6, 7, 8>>, <<>>),
            BodyGSVWith(GP, 3, 3, <<9, 4>>, <<>>),
            BodyGSVWith(GL, 2, 1, <<65, 66, 67, 68>>, <<"3">>),
            BodyGSVWith(GL, 2, 2, <<69>>, <<"3">>) >>)

\* the fields of one satellite of a GSV sentence
GsvGroup(prn, elevation, azimuth, snr) == << prn, elevation, azimuth, snr >>
GsvFull(prn) == GsvGroup(prn, Dec(40, 2), Dec(83, 3), Dec(46, 2))

\* a one-sentence GSV (sentence k of n) from GP with the given satellite fields
BodyGSVOf(n, k, groups) == Join(<< GP \o GSV, Dec(n, 1), Dec(k, 1), Dec(10, 2) >> \o groups)

\* GSV sentences with an empty PRN, a PRN that is no number, and details that
\* are empty or no numbers
PrnMenu ==
    Good(<< BodyGSVWith(GP, 1, 1, <<20, 21>>, <<>>) >>)
    \o << Piece(Frame(BodyGSVOf(1, 1, GsvFull(Dec(10, 2)) \o GsvFull(<<>>)
                                      \o GsvFull(Dec(12, 2)))), FALSE),
          Piece(Frame(BodyGSVOf(1, 1, GsvFull(Dec(10, 2)) \o GsvFull(<<"1", "x">>))), FALSE),
          Piece(Frame(BodyGSVOf(1, 1, GsvGroup(Dec(30, 2), <<>>, <<"0", "8", "x">>, <<>>)
                                      \o GsvFull(Dec(31, 2)))), FALSE),
          Piece(Frame(BodyGSVOf(2, 1, GsvGroup(<<>>, <<>>, <<>>, <<>>))), FALSE) >>

\* an RMC with status A from GP, at 37 51.65 S 145 07.36 W
BodyRMCOf(time, lat, lat_hemi, lon_hemi, speed, course, date) ==
    Join(<< GP \o RMC, time, <<"A">>, lat, lat_hemi, Fx(14507, 5, 36, 2), lon_hemi,
            speed, course, date, <<>>, <<>> >>)

\* an RMC and a GLL with a fix, and RMC sentences the decoder rejects, one
\* for each of its reasons
RmcMenu ==
    Good(<< BodyRMC(GP, Time), BodyGLL(GP) >>)
    \o << Piece(Frame(BodyRMCOf(<<"0", "8", "x", "8", "3", "6">>, Fx(3751, 4, 65, 2), <<"S">>,
                                  <<"W">>, Fx(0, 3, 5, 1), Fx(54, 3, 7, 1), Dec(130998, 6))), FALSE),
          Piece(Frame(BodyRMCOf(Dec(81836, 6), Fx(3751, 4, 65, 2), <<"S">>, <<"W">>,
                                  Fx(0, 3, 5, 1), Fx(54, 3, 7, 1), <<"1", "3", "0", "9", "9", "x">>)), FALSE),
          Piece(Frame(BodyRMCOf(Dec(81836, 6), <<"3", "7", "5", "1", ".", ".", "6">>, <<"S">>,
                                  <<"W">>, Fx(0, 3, 5, 1), Fx(54, 3, 7, 1), Dec(130998, 6))), FALSE),
          Piece(Frame(BodyRMCOf(Dec(81836, 6), Fx(3751, 4, 65, 2), <<"S">>, <<>>,
                                  Fx(0, 3, 5, 1), Fx(54, 3, 7, 1), Dec(130998, 6))), FALSE),
          Piece(Frame(BodyRMCOf(Dec(81836, 6), Fx(3751, 4, 65, 2), <<"S">>, <<"W">>,
                                  <<>>, Fx(54, 3, 7, 1), Dec(130998, 6))), FALSE),
          Piece(Frame(BodyRMCOf(Dec(81836, 6), Fx(3751, 4, 65, 2), <<"S">>, <<"W">>,
                                  Fx(0, 3, 5, 1), <<"N", "/", "A">>, Dec(130998, 6))), FALSE) >>

\* GSV and GSA sentences of GP and GL whose PRNs overlap
UsedMenu ==
    Good(<< BodyGSVWith(GL, 1, 1, <<4, 7>>, <<>>),
            BodyGSAWith(GP, << Dec(7, 2), Dec(9, 2) >>, <<>>),
            BodyGSAWith(GP, << Dec(4, 2) >>, <<>>),
            BodyGSVWith(GP, 1, 1, <<9, 12>>, <<>>),
            BodyGSAWith(GP, << Dec(12, 2) >>, <<>>) >>)

\* sentences that carry a status or a fix indicator: RMC and GLL with and
\* without a fix, a GGA with fix status 0 and a GSA with fix type "none"
ValidMenu ==
    Good(<< BodyRMC(GP, Time),
            BodyGLL(GP),
            Join(<< GP \o GLL, <<>>, <<>>, <<>>, <<>>, Dec(225444, 6), <<"V">> >>),
            Join(<< GP \o RMC, Time, <<"V">>, <<>>, <<>>, <<>>, <<>>, <<>>, <<>>,
                    Dec(230394, 6), <<>>, <<>> >>),
            BodyGGAWith(<<"0">>, Dec(0, 2), <<>>, <<>>),
            Join(<< GP \o GSA, <<"A">>, <<"1">> >> \o [i \in 1..12 |-> <<>>]
                 \o << Fx(2, 1, 5, 1), Fx(1, 1, 3, 1), Fx(2, 1, 1, 1) >>) >>)

\* sentences whose trailing field is not the end of the input, or is not a
\* hexadecimal number
TrailMenu ==
    Good(<< BodyRMC(GP, Time), BodyVTG(GP) >>)
    \o << Piece(BadFrame(BodyVTG(GP)) \o <<",">> \o Hex2(Checksum(BodyVTG(GP))), FALSE),
          Piece(BadFrame(GP \o ZDA) \o <<",", "7", "7">>, FALSE),
          Piece(Frame(BodyGLL(GP)) \o <<"0", ",", "*", "4", "2">>, FALSE),
          Piece(<<"$">> \o BodyGLL(GP) \o <<"*", "G", "1">>, FALSE),
          Piece(<<"$">> \o BodyGLL(GP) \o <<"*", "4", "_">>, FALSE),
          Piece(<<"$">> \o BodyGLL(GP) \o <<"*", " ", "7", ",", "0", "0">>, FALSE),
          Piece(<<"1", "2", ",", "3", "4">>, FALSE) >>

Menus ==
    [ asm |-> AsmMenu,
      limit |-> LimitMenu,
      date |-> DateMenu,
      gga |-> GgaMenu,
      gsa |-> GsaMenu,
      gsv |-> GsvMenu,
      prn |-> PrnMenu,
      rmc |-> RmcMenu,
      used |-> UsedMenu,
      valid |-> ValidMenu,
      trail |-> TrailMenu,
      GP |-> TalkerMenu(GP),
      GL |-> TalkerMenu(<<"G", "L">>),
      GA |-> TalkerMenu(<<"G", "A">>),
      GB |-> TalkerMenu(<<"G", "B">>),
      GI |-> TalkerMenu(<<"G", "I">>),
      GQ |-> TalkerMenu(<<"G", "Q">>),
      GN |-> TalkerMenu(GN),
      BD |-> TalkerMenu(BD),
      PQ |-> TalkerMenu(<<"P", "Q">>),
      QZ |-> TalkerMenu(<<"Q", "Z">>) ]

----------------------------------------------------------------------------
(* The environment                                                         *)

\* how many sentences with a checksum verdict (valid or failed), and how many
\* garbage pieces in a row, a run goes through
MaxClean == 2
MaxCleanWide == 1
MaxJunk == 1
MaxSeq == 3

\* the menus that get MaxClean sentences, and those that get MaxSeq
Deep == {"asm", "limit", "date", "gga", "gsa", "trail", "prn", "rmc", "valid"}
Logged == {"gsv"}
\* the menus fed as deep as the Logged ones, without a log
Long == {"used"}

\* characters update() does not accept
Unprintable == {"TAB", "DEL"}

Menu == Menus[menu]
Cur == Menu[sid]
Txt == Cur.txt

\* the attributes that make up the Fix State
FixFields ==
    { "timestamp", "date", "century", "latitude", "longitude", "speed", "course",
      "altitude", "geoid_height", "satellites_in_view", "satellites_in_use",
      "satellites_used", "last_sv_sentence", "total_sv_sentences", "satellite_data",
      "hdop", "pdop", "vdop", "valid", "fix_stat", "fix_type", "dgps_age",
      "dgps_station", "fix_time" }
Fix(s) == [f \in FixFields |-> s[f]]

StatFields == {"crc_fails", "clean_sentences", "parsed_sentences"}
Stats(s) == [f \in StatFields |-> s[f]]

Snap(s) == [stats |-> Stats(s), fix |-> Fix(s)]

\* one call of update(): r is what it hands back for the character c; the
\* host then asks for the time since the fix
Result(r, c) ==
    /\ self' = r.self
    /\ since' = time_since_fix(r.self, Clock(r.self))
    /\ ret' = r.ret
    /\ called' = r.called
    /\ ch' = c
    /\ raised' = (raised \/ r.ret.kind = "raise")
Call(c) == Result(update(self, c), c)

Budget ==
    self.clean_sentences + self.crc_fails
        < (IF menu \in Deep THEN MaxClean
           ELSE IF menu \in Logged \cup Long THEN MaxSeq ELSE MaxCleanWide)

InitMenu(m) ==
    /\ menu = m
    /\ self = init(0, 20)
    /\ ret = None
    /\ called = <<>>
    /\ ch = ""
    /\ sid = 0
    /\ pos = 0
    /\ snap = Snap(self)
    /\ junk = 0
    /\ raised = FALSE
    /\ log = <<>>
    /\ since = time_since_fix(self, Clock(self))

Init == \E m \in DOMAIN Menus : InitMenu(m)

\* no piece is half-fed
Between == IF sid = 0 THEN TRUE ELSE pos = Len(Txt)

\* the "$" of a sentence of the menu arrives after a finished piece
StartSentence ==
    \E i \in 1..Len(Menu) :
        /\ Menu[i].txt[1] = "$"
        /\ Between
        /\ Budget
        /\ Call("$")
        /\ sid' = i
        /\ pos' = 1
        /\ snap' = Snap(self)
        /\ junk' = 0
        /\ UNCHANGED <<menu, log>>

\* the sentence being fed is cut short: the "$" that arrives begins it anew
Restart ==
    /\ sid # 0 /\ pos < Len(Txt)
    /\ Txt[1] = "$"
    /\ Budget
    /\ Call("$")
    /\ pos' = 1
    /\ snap' = Snap(self)
    /\ junk' = 0
    /\ UNCHANGED <<menu, sid, log>>

\* the first character of a piece of garbage arrives after a finished piece
StartJunk ==
    \E i \in 1..Len(Menu) :
        /\ Menu[i].txt[1] # "$"
        /\ sid # 0 /\ pos = Len(Txt)
        /\ junk < MaxJunk
        /\ Budget
        /\ Call(Menu[i].txt[1])
        /\ sid' = i
        /\ pos' = 1
        /\ snap' = Snap(self)
        /\ junk' = junk + 1
        /\ UNCHANGED <<menu, log>>

\* the next character of the piece arrives
Feed ==
    /\ sid # 0 /\ pos < Len(Txt)
    /\ Call(Txt[pos + 1])
    /\ pos' = pos + 1
    /\ log' = IF menu \in Logged /\ pos + 1 = Len(Txt) THEN Append(log, sid) ELSE log
    /\ UNCHANGED <<menu, sid, snap, junk>>

\* a character outside 10..126 arrives, anywhere in the stream
FeedUnprintable ==
    \E c \in Unprintable :
        /\ Call(c)
        /\ UNCHANGED <<menu, sid, pos, snap, junk, log>>

Next == StartSentence \/ Restart \/ StartJunk \/ Feed \/ FeedUnprintable

Spec == Init /\ [][Next]_vars

----------------------------------------------------------------------------
(* How a piece of the menu reads as a sentence                             *)

\* the index of the first "*" of txt, or 0
StarAt(txt) ==
    IF \E i \in 1..Len(txt) : txt[i] = "*"
    THEN CHOOSE i \in 1..Len(txt) : txt[i] = "*" /\ \A j \in 1..(i - 1) : txt[j] # "*"
    ELSE 0

\* "$", a body without "$" and "*", "*", two hex digits
Framed(txt) ==
    /\ Len(txt) >= 4
    /\ txt[1] = "$"
    /\ StarAt(txt) = Len(txt) - 2
    /\ \A i \in 2..Len(txt) : txt[i] # "$"
    /\ IsHexDigit(txt[Len(txt) - 1]) /\ IsHexDigit(txt[Len(txt)])

\* the characters after the first one and before the first "*"
BodyOf(txt) == SubSeq(txt, 2, IF StarAt(txt) = 0 THEN Len(txt) ELSE StarAt(txt) - 1)

\* the body up to its first ","
HeaderOf(txt) ==
    LET body == BodyOf(txt) IN
    IF \E i \in 1..Len(body) : body[i] = ","
    THEN SubSeq(body, 1, (CHOOSE i \in 1..Len(body) :
                             body[i] = "," /\ \A j \in 1..(i - 1) : body[j] # ",") - 1)
    ELSE body

\* <<x0, x1, ...>>: xk the XOR of the codes of the first k characters
RECURSIVE RunningXor(_, _)
RunningXor(body, acc) ==
    IF Len(acc) > Len(body) THEN acc
    ELSE LET x == Xor(acc[Len(acc)], Ord(body[Len(acc)]))
         IN  IF x >= 0 THEN RunningXor(body, Append(acc, x)) ELSE acc

Shape(txt) ==
    [ framed  |-> Framed(txt),
      star    |-> StarAt(txt),
      body    |-> BodyOf(txt),
      header  |-> HeaderOf(txt),
      \* the XOR of the codes of the first k characters of the body
      xor     |-> LET x == RunningXor(BodyOf(txt), <<0>>)
                  IN  [k \in 0..Len(BodyOf(txt)) |-> x[k + 1]],
      \* the number the two trailing digits write
      trailer |-> IF Framed(txt)
                  THEN 16 * HexVal(txt[Len(txt) - 1]) + HexVal(txt[Len(txt)]) ELSE -1 ]

Shapes == [m \in DOMAIN Menus |-> [i \in 1..Len(Menus[m]) |-> Shape(Menus[m][i].txt)]]
Sh == Shapes[menu][sid]

\* the longest body the length limit lets through: the "*" and the first
\* checksum digit are counted before the limit is looked at
BodyLimit == SENTENCE_LIMIT - 2

\* the last call of update() received the last character of the piece
Done == sid # 0 /\ pos = Len(Txt) /\ ch = Txt[pos]

\* a framed piece with the right digits / with wrong digits
SumOk == sid # 0 /\ Sh.framed /\ Sh.trailer = Sh.xor[Len(Sh.body)]
SumBad == sid # 0 /\ Sh.framed /\ Sh.trailer # Sh.xor[Len(Sh.body)]

\* a well-formed sentence of a supported type from a recognised talker,
\* correctly framed
GoodSentence == sid # 0 /\ Cur.good /\ SumOk

clean_before == snap.stats.clean_sentences
parsed_before == snap.stats.parsed_sentences
fails_before == snap.stats.crc_fails

----------------------------------------------------------------------------
(* C1: a good sentence is returned and counted                             *)

\* the effect C1 describes, in the state after the last character
ReturnedAndCounted ==
    /\ ret = Str(Sh.header)
    /\ self.clean_sentences = clean_before + 1
    /\ self.parsed_sentences = parsed_before + 1
    /\ self.crc_fails = fails_before

\* C1 as stated: for every supported message type and recognised talker, a
\* correctly framed sentence with well-formed fields, fed character by
\* character, makes update() return its header on the second checksum digit
\* and raises clean_sentences and parsed_sentences by exactly 1 over the
\* whole sentence.
C1_AsStated == (GoodSentence /\ Done) => ReturnedAndCounted

\* C1 amended: the same for a sentence whose body (the characters between
\* "$" and "*") is at most SENTENCE_LIMIT - 2 = 88 characters long; until the
\* second checksum digit nothing is returned and no counter moves.
C1_GoodSentenceDecoded ==
    (GoodSentence /\ Len(Sh.body) <= BodyLimit /\ ch = Txt[pos]) =>
        IF pos = Len(Txt) THEN ReturnedAndCounted
        ELSE ret = None /\ Stats(self) = snap.stats

\* a GNS sentence of talker QZ has just been returned
C1_Witness ==
    /\ GoodSentence /\ Done /\ menu = "QZ" /\ called = GNS
    /\ ret = Str(<<"Q", "Z", "G", "N", "S">>)
    /\ self.parsed_sentences = 1 /\ self.clean_sentences = 1

----------------------------------------------------------------------------
(* C2: a sentence with wrong checksum digits is counted as a failure       *)

\* the effect C2 describes, after the character at pos
FailedAndDiscarded ==
    /\ ret = None
    /\ called = <<>>
    /\ Fix(self) = snap.fix
    /\ self.parsed_sentences = parsed_before
    /\ self.clean_sentences = clean_before
    /\ self.crc_fails = fails_before + (IF pos = Len(Txt) THEN 1 ELSE 0)

\* C2 as stated: for every correctly framed sentence whose two trailing hex
\* digits differ from the XOR of its bytes, feeding it leaves
\* parsed_sentences and clean_sentences unchanged, raises crc_fails by
\* exactly 1, invokes no decoder, leaves every Fix State field unchanged, and
\* update() returns nothing on every character.
C2_AsStated == (SumBad /\ ch = Txt[pos]) => FailedAndDiscarded

\* C2 amended: the same for a sentence whose body is at most
\* SENTENCE_LIMIT - 2 = 88 characters long.
C2_BadChecksumCounted ==
    (SumBad /\ Len(Sh.body) <= BodyLimit /\ ch = Txt[pos]) => FailedAndDiscarded

\* the damaged sentence has been fed whole, after a sentence that set a fix
C2_Witness ==
    /\ SumBad /\ Done /\ Len(Sh.body) <= BodyLimit
    /\ self.crc_fails = 1 /\ self.parsed_sentences = 1 /\ self.valid

----------------------------------------------------------------------------
(* C3: update() never raises                                               *)

\* C3 as stated: update() never raises; every call returns either nothing
\* or a header, also for checksum-valid sentences with fewer fields than the
\* decoder reads and for a GSA whose system ID is outside the table.
C3_NeverRaises == ret.kind \in {"None", "str"}

----------------------------------------------------------------------------
(* C4: when update() returns a value                                       *)

\* the field update() is receiving, after the call
LastField == self.gps_segments[Len(self.gps_segments)]

\* C4: update() returns a value only on the character that completes the
\* two-character trailing checksum field of a sentence whose checksum
\* matches and whose decoder succeeded; in exactly those calls
\* parsed_sentences goes up by 1, and the value is the raw field 0 of the
\* sentence, the header as received, before the talker alias is applied.
\* Every other call returns no value and leaves parsed_sentences alone.
C4_ReturnOnlyOnCompletion ==
    [][ IF ret'.kind = "str"
        THEN /\ self.sentence_active /\ ~self.process_crc
             /\ Len(LastField') = 2
             /\ IsHexDigit(LastField'[1]) /\ IsHexDigit(LastField'[2])
             /\ 16 * HexVal(LastField'[1]) + HexVal(LastField'[2]) = self'.crc_xor
             /\ called' \in supported_sentences
             /\ self'.parsed_sentences = self.parsed_sentences + 1
             /\ ret'.val = self'.gps_segments[1]
             /\ ret'.val = Sh'.header
        ELSE self'.parsed_sentences = self.parsed_sentences ]_vars

\* a sentence of talker BD has been returned under the header it came with,
\* while the talker on record is the alias GB
C4_Witness ==
    /\ ret.kind = "str" /\ menu = "BD"
    /\ Slice(ret.val, 0, 2) = BD /\ self.talker = <<"G", "B">>
    /\ self.parsed_sentences = 1

----------------------------------------------------------------------------
(* C5: the running checksum                                                *)

\* C5: the running checksum is the XOR of the codes of the accepted
\* characters received after the most recent "$" and before the first "*"
\* after it: 0 right after the "$", fields and commas included, the "*" and
\* what follows it excluded; and it is this value that the trailing field is
\* compared with.
C5_RunningChecksum ==
    (sid # 0 /\ Txt[1] = "$" /\ pos >= 1) =>
        /\ self.sentence_active =>
               self.crc_xor = Sh.xor[Min(pos - 1, Len(Sh.body))]
        /\ (Sh.framed /\ Len(Sh.body) <= BodyLimit /\ Done) =>
               (self.clean_sentences = clean_before + 1
                    <=> Sh.trailer = Sh.xor[Len(Sh.body)])

\* the first checksum digit has come in and the checksum is still that of
\* the body
C5_Witness ==
    /\ sid # 0 /\ Txt[1] = "$" /\ Sh.star > 0 /\ pos = Sh.star + 1
    /\ self.sentence_active /\ ~self.process_crc
    /\ self.crc_xor = Sh.xor[Len(Sh.body)] /\ self.crc_xor # 0

----------------------------------------------------------------------------
(* C6: which checksum-valid sentences reach a decoder                      *)

\* the tables as C6 lists them
MessageCodes == {RMC, GGA, VTG, GSA, GSV, GLL, ZDA, GNS}
RecognisedTalkers == {GP, <<"G", "L">>, <<"G", "A">>, <<"G", "B">>, <<"G", "I">>,
                      <<"G", "Q">>, GN}
Normalised(t) ==
    IF t = BD THEN <<"G", "B">>
    ELSE IF t \in {<<"P", "Q">>, <<"Q", "Z">>} THEN <<"G", "Q">> ELSE t

LastThree(h) == IF Len(h) >= 3 THEN SubSeq(h, Len(h) - 2, Len(h)) ELSE h

\* the last call found the checksum of the piece valid
CheckedValid == sid # 0 /\ Sh.framed /\ Done /\ self.clean_sentences = clean_before + 1

\* dropped: only clean_sentences has moved
Dropped ==
    /\ called = <<>>
    /\ ret = None
    /\ self.parsed_sentences = parsed_before
    /\ self.crc_fails = fails_before
    /\ Fix(self) = snap.fix

\* C6 as stated: a checksum-valid sentence is handed to a decoder if and
\* only if the last three header characters are a supported message code and
\* the first two, after alias normalisation, are a recognised talker;
\* otherwise it is dropped.
C6_AsStated ==
    CheckedValid =>
        IF /\ LastThree(Sh.header) \in MessageCodes
           /\ Normalised(Slice(Sh.header, 0, 2)) \in RecognisedTalkers
        THEN called = LastThree(Sh.header)
        ELSE Dropped

\* C6 amended: ... if and only if the header without its first two
\* characters is exactly a supported message code and the first two, after
\* alias normalisation, are a recognised talker; otherwise it is dropped:
\* clean_sentences goes up by 1, parsed_sentences and crc_fails do not move,
\* no Fix State field changes and update() returns nothing.
C6_DispatchRule ==
    CheckedValid =>
        IF /\ SliceFrom(Sh.header, 2) \in MessageCodes
           /\ Normalised(Slice(Sh.header, 0, 2)) \in RecognisedTalkers
        THEN called = SliceFrom(Sh.header, 2)
        ELSE Dropped

\* the sentence headed GPXRMC has been found valid and dropped, after a
\* sentence that was decoded
C6_Witness ==
    /\ CheckedValid /\ Sh.header = <<"G", "P", "X", "R", "M", "C">>
    /\ Dropped /\ self.parsed_sentences = 1

----------------------------------------------------------------------------
(* C7: a sentence that runs over the length limit                          *)

\* a "$" followed by more than SENTENCE_LIMIT characters, no "*" and no "$"
\* among them
Overlong ==
    /\ sid # 0 /\ Txt[1] = "$" /\ Sh.star = 0
    /\ Len(Txt) - 1 > SENTENCE_LIMIT
    /\ \A i \in 2..Len(Txt) : Txt[i] # "$"

\* C7: while such a sentence is fed update() never returns a value, no
\* statistics counter changes and the Fix State stays as it was before the
\* "$"; once more than SENTENCE_LIMIT characters have followed the "$" the
\* assembler is idle.
C7_OverlongAbandoned ==
    (Overlong /\ pos >= 1) =>
        /\ ret = None
        /\ Stats(self) = snap.stats
        /\ Fix(self) = snap.fix
        /\ (pos - 1 > SENTENCE_LIMIT => ~self.sentence_active)

\* the overlong sentence has been fed whole, after a sentence that set a fix
C7_Witness ==
    /\ Overlong /\ Done /\ ~self.sentence_active
    /\ self.parsed_sentences = 1 /\ self.valid

----------------------------------------------------------------------------
(* C8: "$" starts a fresh sentence                                         *)

\* C8: in every assembler state a "$" leaves exactly one empty field, field
\* index 0, checksum 0, character count 0, the sentence active and the
\* checksum running; no statistics counter and no Fix State field changes,
\* and update() returns nothing.
C8_DollarStartsAfresh ==
    [][ ch' = "$" =>
          /\ self'.gps_segments = << <<>> >>
          /\ self'.active_segment = 0
          /\ self'.crc_xor = 0
          /\ self'.char_count = 0
          /\ self'.sentence_active /\ self'.process_crc
          /\ Stats(self') = Stats(self)
          /\ Fix(self') = Fix(self)
          /\ ret' = None ]_vars

\* a "$" has arrived after a checksum failure and reset the assembler
C8_Witness ==
    /\ ch = "$" /\ pos = 1 /\ self.crc_fails = 1
    /\ self.gps_segments = << <<>> >> /\ self.crc_xor = 0 /\ self.sentence_active

----------------------------------------------------------------------------
(* C9: characters outside 10..126                                          *)

\* C9: a character whose code is below 10 or above 126 makes update() return
\* nothing and leaves the whole object as it was, in every state.
C9_UnprintableIgnored ==
    [][ (Ord(ch') < 10 \/ Ord(ch') > 126) => (self' = self /\ ret' = None) ]_vars

\* such a character has arrived between the two checksum digits
C9_Witness ==
    /\ ch \in Unprintable /\ sid # 0 /\ Sh.star > 0 /\ pos = Sh.star + 1
    /\ self.sentence_active /\ ~self.process_crc

----------------------------------------------------------------------------
(* C10: recovery                                                           *)

\* C10 as stated: after any calls that did not raise, a complete, correctly
\* framed, well-formed sentence of a supported type ends with update()
\* returning its header.
C10_AsStated == (~raised /\ GoodSentence /\ Done) => ret = Str(Sh.header)

\* C10 amended: the same for a sentence whose body is at most
\* SENTENCE_LIMIT - 2 = 88 characters long.
C10_Recovery ==
    (~raised /\ GoodSentence /\ Len(Sh.body) <= BodyLimit /\ Done) =>
        ret = Str(Sh.header)

\* a good sentence has been returned after a checksum failure
C10_Witness ==
    /\ ~raised /\ GoodSentence /\ Done /\ ret = Str(Sh.header)
    /\ self.crc_fails = 1 /\ self.parsed_sentences = 1

----------------------------------------------------------------------------
(* What a piece of the menu says, field by field                           *)

\* the positions of the commas of a body, and the fields between them
Commas(body) == {i \in 1..Len(body) : body[i] = ","}
FieldEnd(body, k) ==
    IF k > Cardinality(Commas(body)) THEN Len(body) + 1
    ELSE CHOOSE i \in Commas(body) : Cardinality({j \in Commas(body) : j < i}) = k - 1
FieldsOf(body) ==
    [k \in 1..(Cardinality(Commas(body)) + 1) |->
        SubSeq(body, IF k = 1 THEN 1 ELSE FieldEnd(body, k - 1) + 1, FieldEnd(body, k) - 1)]

Parts == [m \in DOMAIN Menus |-> [i \in 1..Len(Menus[m]) |-> FieldsOf(Shapes[m][i].body)]]

\* the fields of the piece being fed: F[1] is the header, F[k + 1] is what the
\* decoder reads as gps_segments[k]
F == Parts[menu][sid]

\* the number a field writes
IntOf(field) == ParseInt(field).v
FloatOf(field) == ParseFloat(field).v

\* the position a ddmm.mmm (w = 2) or dddmm.mmm (w = 3) field and its
\* hemisphere field write
PositionOf(field, hemi, w) ==
    <<IntOf(Slice(field, 0, w)), FloatOf(SliceFrom(field, w)), hemi>>

\* the last call of update() completed the piece and returned its header
\* from the decoder of the message code
DecodedAs(message) == Done /\ called = message /\ ret = Str(Sh.header)

NoLatitude == <<0, FInt(0), <<"N">>>>
NoLongitude == <<0, FInt(0), <<"W">>>>

----------------------------------------------------------------------------
(* C11: the status field of RMC                                            *)

\* C11: after a successfully decoded RMC with status other than "A", valid
\* is false and latitude, longitude, speed and course hold their zero
\* defaults; a successfully decoded RMC with status "A" sets valid and stores
\* the latitude, longitude, speed triple (knots, knots * 1.151, knots * 1.852)
\* and course of that sentence, whatever the sentences before it were.
C11_RmcStatus ==
    DecodedAs(RMC) =>
        IF F[3] = <<"A">>
        THEN /\ self.valid
             /\ self.latitude = PositionOf(F[4], F[5], 2)
             /\ self.longitude = PositionOf(F[6], F[7], 3)
             /\ self.speed = << FloatOf(F[8]),
                                Norm(FloatOf(F[8]).m * 1151, FloatOf(F[8]).e + 3),
                                Norm(FloatOf(F[8]).m * 1852, FloatOf(F[8]).e + 3) >>
             /\ self.course = (IF F[9] = <<>> THEN FInt(0) ELSE FloatOf(F[9]))
        ELSE /\ ~self.valid
             /\ self.latitude = NoLatitude
             /\ self.longitude = NoLongitude
             /\ self.speed = <<FInt(0), FInt(0), FInt(0)>>
             /\ self.course = FInt(0)

\* an RMC with status "A" has been decoded right after one with status "V",
\* and the position on record is that of the southern, western sentence
C11_Witness ==
    /\ DecodedAs(RMC) /\ F[3] = <<"A">>
    /\ ~snap.fix.valid /\ snap.fix.date = <<23, 3, 2094>> /\ parsed_before = 1
    /\ self.valid
    /\ self.latitude = <<37, [m |-> 5165, e |-> 2], <<"S">>>>
    /\ self.longitude = <<145, [m |-> 736, e |-> 2], <<"W">>>>
    /\ self.speed[1] = [m |-> 5, e |-> 1]

----------------------------------------------------------------------------
(* C12: a GSV sequence delivered in order                                  *)

\* what a GSV piece (its fields p) says: its talker, the number of sentences
\* of its sequence, its index, its signal (1 when it names none) and its PRNs
GsvTalker(p) == Normalised(Slice(p[1], 0, 2))
GsvTotal(p) == IntOf(p[2])
GsvIndex(p) == IntOf(p[3])
GsvSignalOf(p) ==
    IF (Len(p) + 1) % 4 = 1 THEN 1
    ELSE IF ParseHex(p[((Len(p) + 1) \div 4) * 4 + 1]).ok
    THEN ParseHex(p[((Len(p) + 1) \div 4) * 4 + 1]).v ELSE 1
GsvPrns(p) ==
    {IntOf(p[j + 1]) : j \in {i \in 4..(Len(p) - 1) : i % 4 = 0 /\ i < 4 * ((Len(p) + 1) \div 4)}}

\* the pieces of the log that came from the talker of the piece just fed
SameTalker == SelectSeq(log, LAMBDA i : GsvTalker(Parts[menu][i]) = GsvTalker(F))

\* the last GsvIndex(F) of them, the piece just fed being the last
Sequence == SubSeq(SameTalker, Len(SameTalker) - GsvIndex(F) + 1, Len(SameTalker))

\* the piece just fed is sentence k of a sequence whose sentences 1..k have
\* been delivered in order, for one talker and one signal
InOrder ==
    /\ menu \in Logged /\ DecodedAs(GSV)
    /\ GsvIndex(F) >= 1 /\ GsvIndex(F) <= GsvTotal(F)
    /\ Len(SameTalker) >= GsvIndex(F)
    /\ \A j \in 1..GsvIndex(F) :
          /\ GsvIndex(Parts[menu][Sequence[j]]) = j
          /\ GsvTotal(Parts[menu][Sequence[j]]) = GsvTotal(F)
          /\ GsvSignalOf(Parts[menu][Sequence[j]]) = GsvSignalOf(F)

\* the number of PRN entries tracked over all talkers and signals
Tracked(s) ==
    Cardinality({ x \in (DOMAIN s.satellite_data) \X (0..255) \X (0..255) :
                    /\ x[2] \in DOMAIN s.satellite_data[x[1]]
                    /\ x[3] \in DOMAIN s.satellite_data[x[1]][x[2]] })

\* C12: for one talker and one signal, when the sentences 1..N of a GSV
\* sequence have been delivered in order the talker's satellite-detail map
\* holds that signal only, with exactly the union of the PRNs of the N
\* sentences (and after sentence k < N, of the first k); satellites_in_view
\* is not changed by sentences 1..N-1 and is set on sentence N to the number
\* of PRN entries tracked over all talkers and signals.
C12_GsvSequence ==
    InOrder =>
        /\ GsvTalker(F) \in DOMAIN self.satellite_data
        /\ DOMAIN self.satellite_data[GsvTalker(F)] = {GsvSignalOf(F)}
        /\ DOMAIN self.satellite_data[GsvTalker(F)][GsvSignalOf(F)] =
               UNION {GsvPrns(Parts[menu][Sequence[j]]) : j \in 1..GsvIndex(F)}
        /\ self.satellites_in_view =
               (IF GsvIndex(F) = GsvTotal(F) THEN Tracked(self)
                ELSE snap.fix.satellites_in_view)

\* the third of three GP sentences has been delivered after the first two:
\* nine PRNs are on record (PRN 4 came twice) and counted
C12_Witness ==
    /\ InOrder /\ GsvIndex(F) = 3 /\ GsvTotal(F) = 3 /\ log = <<1, 2, 3>>
    /\ DOMAIN self.satellite_data[GP][1] = 1..9
    /\ snap.fix.satellites_in_view = 0 /\ self.satellites_in_view = 9

----------------------------------------------------------------------------
(* C13: a GSA sentence with a system ID                                    *)

\* the fixed ID table as C13 lists it
SystemTalker ==
    [id \in 1..6 |-> CASE id = 1 -> GP [] id = 2 -> GL [] id = 3 -> <<"G", "A">>
                       [] id = 4 -> <<"G", "B">> [] id = 5 -> <<"G", "Q">>
                       [] OTHER -> <<"G", "I">>]

\* the piece just decoded is a GSA that carries the system-ID field (the
\* 19th of its fields) with an ID of the table
GsaWithId ==
    /\ DecodedAs(GSA) /\ Len(F) >= 19
    /\ ParseHex(F[19]).ok /\ ParseHex(F[19]).v \in 1..6

\* the PRNs a GSA piece lists
GsaPrns(p) == {IntOf(p[j]) : j \in {i \in 4..15 : p[i] # <<>>}}

----------------------------------------------------------------------------
(* C14: what a GGA sentence updates                                        *)

\* the example sentence of C14:
\* $GPGGA,123519,4807.038,N,01131.000,E,1,08,0.9,545.4,M,46.9,M,,*47
ExampleGGA ==
    << "$", "G", "P", "G", "G", "A", ",", "1", "2", "3", "5", "1", "9", ",", "4", "8",
       "0", "7", ".", "0", "3", "8", ",", "N", ",", "0", "1", "1", "3", "1", ".", "0",
       "0", "0", ",", "E", ",", "1", ",", "0", "8", ",", "0", ".", "9", ",", "5", "4",
       "5", ".", "4", ",", "M", ",", "4", "6", ".", "9", ",", "M", ",", ",", "*", "4",
       "7" >>

\* the timestamp an hhmmss field writes (the local offset is 0)
TimeOf(field) ==
    <<FInt(IntOf(Slice(field, 0, 2))), FInt(IntOf(Slice(field, 2, 4))),
      FloatOf(SliceFrom(field, 4))>>
TimeParses(field) ==
    /\ field # <<>>
    /\ ParseInt(Slice(field, 0, 2)).ok /\ ParseInt(Slice(field, 2, 4)).ok
    /\ ParseFloat(SliceFrom(field, 4)).ok

\* a float field, or a value no attribute holds when it does not parse
FloatOr(field, other) == IF ParseFloat(field).ok THEN FloatOf(field) ELSE other

\* the position block from field i on parses, with known hemisphere letters
PositionParses(p, i) ==
    /\ ParseInt(Slice(p[i], 0, 2)).ok /\ ParseFloat(SliceFrom(p[i], 2)).ok
    /\ ParseInt(Slice(p[i + 2], 0, 3)).ok /\ ParseFloat(SliceFrom(p[i + 2], 3)).ok
    /\ p[i + 1] \in {<<"N">>, <<"S">>, <<"E">>, <<"W">>}
    /\ p[i + 3] \in {<<"N">>, <<"S">>, <<"E">>, <<"W">>}

\* the last call found the checksum of a GGA piece valid and handed it to
\* gpgga(); its time, satellite count and fix status parse
GgaReceived ==
    /\ Done /\ called = GGA /\ Len(F) >= 12
    /\ TimeParses(F[2]) /\ ParseInt(F[8]).ok /\ ParseInt(F[7]).ok

\* the example sentence has been fed whole to a parser whose satellite count
\* was at most 12, as it is on a new object
ExampleFed == Done /\ Txt = ExampleGGA /\ snap.fix.satellites_in_use <= 12

\* what the example sentence leaves
ExampleResult ==
    /\ self.timestamp = <<FInt(12), FInt(35), FInt(19)>>
    /\ self.satellites_in_use = 8
    /\ self.hdop = [m |-> 9, e |-> 1]
    /\ self.altitude = [m |-> 5454, e |-> 1]
    /\ self.geoid_height = [m |-> 469, e |-> 1]
    /\ self.fix_stat = 1
    /\ ret = Str(<<"G", "P", "G", "G", "A">>)

PositionKept ==
    /\ self.latitude = snap.fix.latitude
    /\ self.longitude = snap.fix.longitude
    /\ self.altitude = snap.fix.altitude
    /\ self.geoid_height = snap.fix.geoid_height

\* C14 as stated: a checksum-valid GGA sentence with parseable time,
\* satellite count and fix status always updates the timestamp, hdop and fix
\* status; when the fix status is nonzero and latitude/longitude are valid it
\* also stores latitude, longitude, altitude and geoid height from the
\* sentence, and when the fix status is zero it leaves them unchanged; the
\* example sentence, fed to a new parser, gives the example result.
C14_AsStated ==
    /\ GgaReceived =>
          /\ self.timestamp = TimeOf(F[2])
          /\ self.hdop = FloatOr(F[9], Inf)
          /\ self.fix_stat = IntOf(F[7])
          /\ (IntOf(F[7]) # 0 /\ PositionParses(F, 3)) =>
                /\ self.latitude = PositionOf(F[3], F[4], 2)
                /\ self.longitude = PositionOf(F[5], F[6], 3)
                /\ self.altitude = FloatOr(F[10], NoneF)
                /\ self.geoid_height = FloatOr(F[12], NoneF)
          /\ IntOf(F[7]) = 0 => PositionKept
    /\ ExampleFed => ExampleResult

\* C14 amended: a checksum-valid GGA sentence with parseable time always
\* updates the timestamp; when it is successfully decoded (update() returns
\* its header: satellite count and fix status parse and, for a nonzero fix
\* status, latitude/longitude are valid) it updates hdop and fix status; when
\* the fix status is nonzero it also stores latitude and longitude from the
\* sentence and, when both parse, altitude and geoid height from the sentence
\* (0 for both when one does not parse), and when the fix status is zero it
\* leaves latitude, longitude, altitude and geoid height unchanged; the
\* example sentence, fed to a parser whose satellite count is at most 12 (a
\* new one has 0), gives the example result.
C14_GgaUpdates ==
    /\ (Done /\ called = GGA /\ TimeParses(F[2])) => self.timestamp = TimeOf(F[2])
    /\ DecodedAs(GGA) =>
          /\ self.hdop = FloatOr(F[9], Inf)
          /\ self.fix_stat = IntOf(F[7])
          /\ IF IntOf(F[7]) # 0
             THEN /\ self.latitude = PositionOf(F[3], F[4], 2)
                  /\ self.longitude = PositionOf(F[5], F[6], 3)
                  /\ self.altitude =
                        (IF ParseFloat(F[10]).ok /\ ParseFloat(F[12]).ok
                         THEN FloatOf(F[10]) ELSE FInt(0))
                  /\ self.geoid_height =
                        (IF ParseFloat(F[10]).ok /\ ParseFloat(F[12]).ok
                         THEN FloatOf(F[12]) ELSE FInt(0))
             ELSE PositionKept
    /\ ExampleFed => ExampleResult

\* a GGA without a fix has been decoded after the example sentence: time,
\* hdop and fix status are its own, the position is still the example's
C14_Witness ==
    /\ DecodedAs(GGA) /\ IntOf(F[7]) = 0 /\ self.fix_stat = 0
    /\ snap.fix.fix_stat = 1 /\ snap.fix.altitude = [m |-> 5454, e |-> 1]
    /\ self.hdop = [m |-> 12, e |-> 1]
    /\ self.latitude = <<48, [m |-> 7038, e |-> 3], <<"N">>>>
    /\ self.altitude = [m |-> 5454, e |-> 1]

----------------------------------------------------------------------------
(* C15: a trailing field that is not hexadecimal is not counted            *)

\* two characters int(x, 16) takes as a number: two hexadecimal digits, or
\* one digit with a sign or white space before it, or with white space after
HexNumber(field) ==
    /\ Len(field) = 2
    /\ \/ IsHexDigit(field[1]) /\ IsHexDigit(field[2])
       \/ field[1] \in {" ", "LF", "CR", "+", "-"} /\ IsHexDigit(field[2])
       \/ IsHexDigit(field[1]) /\ field[2] \in {" ", "LF", "CR"}

\* the field a character of this step has just gone to
TrailingField == At(self'.gps_segments, self'.active_segment)

\* this step is a call of update() whose character was the second one of the
\* field after the "*"
TrailingCompleted ==
    /\ self.sentence_active /\ ~self.process_crc
    /\ self'.char_count = self.char_count + 1
    /\ ch' \notin {"$", "*", ","}
    /\ Len(TrailingField) = 2

----------------------------------------------------------------------------
(* C16: the counters only grow                                             *)

\* no counter is smaller after the step than before it
CountersGrow == \A f \in StatFields : self'[f] >= self[f]

\* C16: over any sequence of update() calls clean_sentences,
\* parsed_sentences and crc_fails never decrease and are never reset, and in
\* every reachable state parsed_sentences <= clean_sentences.
C16_CountersMonotone ==
    /\ [][CountersGrow]_vars
    /\ [](self.parsed_sentences <= self.clean_sentences)

\* a sentence with a valid checksum has been rejected by its decoder after
\* another one was decoded: the counters have moved apart
C16_Witness ==
    /\ Done /\ called = RMC /\ ret = None
    /\ snap.stats.clean_sentences = 1 /\ snap.stats.parsed_sentences = 1
    /\ self.clean_sentences = 2 /\ self.parsed_sentences = 1

----------------------------------------------------------------------------
(* C17: the hemisphere letters                                             *)

\* the hemisphere fields of the piece, for the four messages with a position
LatHemi == IF called = RMC THEN F[5] ELSE IF called = GLL THEN F[3] ELSE F[4]
LonHemi == IF called = RMC THEN F[7] ELSE IF called = GLL THEN F[5] ELSE F[6]

\* the decoder of the piece goes on to its position fields
PositionRead ==
    CASE called = RMC -> F[3] = <<"A">>
      [] called = GLL -> F[7] = <<"A">>
      [] called = GGA -> ParseInt(F[7]).ok /\ ParseInt(F[7]).v # 0
      [] called = GNS -> \E i \in 1..Len(F[7]) : F[7][i] \in {"E", "F", "R", "A", "D"}
      [] OTHER -> FALSE

\* C17: in every reachable state the stored latitude hemisphere is "N" or
\* "S" and the stored longitude hemisphere is "E" or "W"; an RMC, GGA, GLL or
\* GNS sentence whose latitude hemisphere is not N/S or whose longitude
\* hemisphere is not E/W is rejected without changing the stored position.
C17_HemispheresValid ==
    /\ self.latitude[3] \in {<<"N">>, <<"S">>}
    /\ self.longitude[3] \in {<<"E">>, <<"W">>}
    /\ (/\ Done /\ called \in {RMC, GGA, GLL, GNS} /\ PositionRead
        /\ ~(LatHemi \in {<<"N">>, <<"S">>} /\ LonHemi \in {<<"E">>, <<"W">>}))
          => /\ ret = None
             /\ self.latitude = snap.fix.latitude
             /\ self.longitude = snap.fix.longitude

----------------------------------------------------------------------------
(* C18: a GGA count of at most 12 against a stored count above 12          *)

\* the stored satellites_in_use before the piece, and the count of the piece
StoredCount == snap.fix.satellites_in_use
GgaCount == IntOf(F[8])

\* C18 as stated: a GGA decode never overrides a larger true
\* satellites-in-use value already present: whenever the stored value is
\* greater than 12 and greater than the count carried by the GGA sentence, it
\* is unchanged after the decode; in all other successful GGA decodes the
\* stored value becomes the sentence's count.
C18_AsStated ==
    DecodedAs(GGA) =>
        self.satellites_in_use =
            (IF StoredCount > 12 /\ StoredCount > GgaCount THEN StoredCount
             ELSE GgaCount)

\* C18 amended: a GGA decode never overrides a stored satellites-in-use value
\* above 12 with a count of at most 12: whenever the stored value is greater
\* than 12 and the count carried by the GGA sentence is at most 12, the stored
\* value is unchanged after the decode; in all other successful GGA decodes
\* the stored value becomes the sentence's count.
C18_SatellitesRule ==
    DecodedAs(GGA) =>
        self.satellites_in_use =
            (IF StoredCount > 12 /\ GgaCount <= 12 THEN StoredCount
             ELSE GgaCount)

\* a GGA with 8 satellites has been decoded after a GNS with 20: the 20 stay
C18_Witness ==
    /\ DecodedAs(GGA) /\ GgaCount = 8 /\ StoredCount = 20
    /\ self.satellites_in_use = 20 /\ self.fix_stat = 1

----------------------------------------------------------------------------
(* C19: the default century                                                *)

\* day, month and year of a ZDA piece are all numbers
ZdaNumeric == ParseInt(F[3]).ok /\ ParseInt(F[4]).ok /\ ParseInt(F[5]).ok

\* the century in force when the piece began
CenturyBefore == snap.fix.century

\* C19: the default century is the constructor value until a ZDA sentence is
\* successfully decoded (no other step changes it); a decoded ZDA with year Y
\* makes it Y div 100, and every later decoded RMC with a date ddmmyy stores
\* the year 100 * century + yy with the century then in force; a ZDA whose
\* day, month or year is not numeric changes neither the century nor the date.
C19_Century ==
    /\ [][self'.century # self.century =>
            /\ called' = ZDA /\ ret'.kind = "str"
            /\ self'.century = self'.date[3] \div 100]_vars
    /\ [](/\ DecodedAs(ZDA) =>
                /\ self.century = IntOf(F[5]) \div 100
                /\ self.date = <<IntOf(F[3]), IntOf(F[4]), IntOf(F[5])>>
          /\ (DecodedAs(RMC) /\ F[10] # <<>>) =>
                self.date = <<IntOf(Slice(F[10], 0, 2)), IntOf(Slice(F[10], 2, 4)),
                              100 * CenturyBefore + IntOf(Slice(F[10], 4, 6))>>
          /\ (Done /\ called = ZDA /\ Len(F) >= 5 /\ ~ZdaNumeric) =>
                /\ ret = None
                /\ self.century = CenturyBefore
                /\ self.date = snap.fix.date)

\* an RMC dated 230394 has been decoded after a ZDA of the year 2104
C19_Witness ==
    /\ DecodedAs(RMC) /\ F[10] = <<"2", "3", "0", "3", "9", "4">>
    /\ CenturyBefore = 21 /\ snap.fix.date = <<4, 7, 2104>>
    /\ self.century = 21 /\ self.date = <<23, 3, 2194>>

----------------------------------------------------------------------------
(* C20: the checksum comparison and the end of the sentence                *)

\* C20: the checksum comparison runs at most once per sentence and ends it:
\* the call that completes the two-character trailing field (match, mismatch
\* or malformed) leaves the assembler idle, and while it is idle every
\* character other than "$" changes no counter, invokes no decoder and
\* returns nothing; so crc_fails increases by at most 1 between two "$".
C20_ComparisonEndsSentence ==
    [][ /\ TrailingCompleted => ~self'.sentence_active
        /\ (~self.sentence_active /\ ch' # "$") =>
              /\ Stats(self') = Stats(self)
              /\ called' = <<>> /\ ret' = None ]_vars

----------------------------------------------------------------------------
(* C21: the length limit                                                   *)

\* C21: update() never returns a header and never invokes a decoder on a
\* character that is more than SENTENCE_LIMIT accepted characters after the
\* "$" of its sentence, and after every call in which a sentence is still in
\* progress the running character count is at most SENTENCE_LIMIT.
C21_LengthLimit ==
    /\ (ret.kind = "str" \/ called # <<>>) => self.char_count <= SENTENCE_LIMIT
    /\ self.sentence_active => self.char_count <= SENTENCE_LIMIT

----------------------------------------------------------------------------
(* C22: a GNS sentence with a bad position                                 *)

\* a GNS piece whose time parses and whose mode string has a valid-fix letter
\* has been handed to gpgns()
GnsWithFix ==
    /\ Done /\ called = GNS /\ Len(F) >= 13 /\ TimeParses(F[2])
    /\ \E i \in 1..Len(F[7]) : F[7][i] \in {"E", "F", "R", "A", "D"}

\* a position number of the piece does not parse, or a hemisphere is not
\* one of its two letters
GnsBadPosition ==
    \/ ~ParseInt(Slice(F[3], 0, 2)).ok \/ ~ParseFloat(SliceFrom(F[3], 2)).ok
    \/ ~ParseInt(Slice(F[5], 0, 3)).ok \/ ~ParseFloat(SliceFrom(F[5], 3)).ok
    \/ F[4] \notin {<<"N">>, <<"S">>} \/ F[6] \notin {<<"E">>, <<"W">>}

\* C22 as stated: in a GNS sentence whose mode string contains a valid-fix
\* letter, a bad latitude/longitude number or hemisphere aborts only the
\* position portion: latitude, longitude, altitude and geoid height keep
\* their prior values, while satellite count, hdop, DGPS age and DGPS station
\* are still updated from the sentence, the decoder reports success and
\* update() returns the header.
C22_AsStated ==
    (GnsWithFix /\ GnsBadPosition) =>
        /\ PositionKept
        /\ self.satellites_in_use = IntOf(F[8])
        /\ self.hdop = FloatOr(F[9], FInt(0))
        /\ self.dgps_age = FloatOr(F[12], NoneF)
        /\ self.dgps_station = FloatOr(F[13], NoneF)
        /\ ret = Str(Sh.header)

\* C22 amended: in a GNS sentence whose mode string contains a valid-fix
\* letter, a latitude/longitude number that does not parse or a hemisphere
\* field that is none of the letters N, S, E, W aborts the whole sentence
\* after its time: the timestamp is the sentence's, latitude, longitude,
\* altitude, geoid height, satellite count, hdop, DGPS age and DGPS station
\* keep their prior values, the decoder reports failure, parsed_sentences
\* does not move and update() returns nothing.
C22_GnsBadPosition ==
    (GnsWithFix /\ ~PositionParses(F, 3)) =>
        /\ self.timestamp = TimeOf(F[2])
        /\ PositionKept
        /\ self.satellites_in_use = snap.fix.satellites_in_use
        /\ self.hdop = snap.fix.hdop
        /\ self.dgps_age = snap.fix.dgps_age
        /\ self.dgps_station = snap.fix.dgps_station
        /\ self.parsed_sentences = parsed_before
        /\ ret = None

\* the GNS with latitude "48x7", 10 satellites and a DGPS age has been fed
\* whole after an RMC with a fix: nothing of it but the time is on record
C22_Witness ==
    /\ GnsWithFix /\ F[3] = <<"4", "8", "x", "7">> /\ IntOf(F[8]) = 10
    /\ snap.fix.valid /\ snap.fix.timestamp = <<FInt(8), FInt(18), FInt(36)>>
    /\ self.timestamp = <<FInt(12), FInt(35), FInt(19)>>
    /\ self.latitude = <<37, [m |-> 5165, e |-> 2], <<"S">>>>
    /\ self.satellites_in_use = 0 /\ self.dgps_age = NoneF
    /\ ret = None

----------------------------------------------------------------------------
(* C23: the PRN slots and the details of a GSV sentence                    *)

\* the field numbers of the PRN slots of a GSV piece: gps_segments[4], [8], ...
\* below sat_segment_limit (F leaves out the trailing checksum field)
GsvSlots == {j + 1 : j \in {i \in 4..(Len(F) - 1) : i % 4 = 0 /\ i < 4 * ((Len(F) + 1) \div 4)}}

\* the slots before the first empty one
GsvListed == {j \in GsvSlots : \A i \in GsvSlots : i <= j => F[i] # <<>>}

\* a detail field as stored: (n) for a number, () for unknown
Detail(j) == IF j <= Len(F) /\ ParseInt(F[j]).ok THEN <<IntOf(F[j])>> ELSE <<>>

\* a GSV piece whose three leading numbers parse has been handed to gpgsv()
GsvReceived ==
    /\ Done /\ called = GSV /\ Len(F) >= 4
    /\ ParseInt(F[2]).ok /\ ParseInt(F[3]).ok /\ ParseInt(F[4]).ok

GsvRejected ==
    /\ ret = None
    /\ self.satellite_data = snap.fix.satellite_data
    /\ self.satellites_in_view = snap.fix.satellites_in_view
    /\ self.total_sv_sentences = snap.fix.total_sv_sentences
    /\ self.last_sv_sentence = snap.fix.last_sv_sentence

\* the satellites of the slots js are on record with their details, unknown
\* where a detail is empty or no number
GsvStored(js) ==
    /\ ret = Str(Sh.header)
    /\ self.total_sv_sentences = GsvTotal(F) /\ self.last_sv_sentence = GsvIndex(F)
    /\ GsvTalker(F) \in DOMAIN self.satellite_data
    /\ GsvSignalOf(F) \in DOMAIN self.satellite_data[GsvTalker(F)]
    /\ \A j \in js :
          /\ IntOf(F[j]) \in DOMAIN self.satellite_data[GsvTalker(F)][GsvSignalOf(F)]
          /\ (\A i \in js : i > j => IntOf(F[i]) # IntOf(F[j])) =>
                self.satellite_data[GsvTalker(F)][GsvSignalOf(F)][IntOf(F[j])]
                    = <<Detail(j + 1), Detail(j + 2), Detail(j + 3)>>
    /\ GsvIndex(F) = 1 =>
          DOMAIN self.satellite_data[GsvTalker(F)][GsvSignalOf(F)]
              = {IntOf(F[j]) : j \in js}

\* C23 as stated: a GSV sentence is rejected (decoder fails, satellite-detail
\* map, satellites_in_view and the sequence bookkeeping unchanged, update()
\* returns nothing) whenever a PRN slot in one of its satellite groups is
\* empty or not an integer; an empty or unparseable elevation, azimuth or SNR
\* alone never rejects the sentence and is stored as unknown.
C23_AsStated ==
    GsvReceived =>
        IF \E j \in GsvSlots : ~ParseInt(F[j]).ok
        THEN GsvRejected ELSE GsvStored(GsvSlots)

\* C23 amended: a GSV sentence is rejected (decoder fails, satellite-detail
\* map, satellites_in_view and the sequence bookkeeping unchanged, update()
\* returns nothing) whenever a PRN slot before the first empty one is not an
\* integer; an empty PRN slot ends the list of satellites without rejecting
\* the sentence: the satellites before it are stored and the groups after it
\* are ignored; an empty or unparseable elevation, azimuth or SNR alone never
\* rejects the sentence and is stored as unknown.
C23_GsvPrn ==
    GsvReceived =>
        IF \E j \in GsvListed : ~ParseInt(F[j]).ok
        THEN GsvRejected ELSE GsvStored(GsvListed)

\* the GSV whose second PRN slot is empty has been decoded after another GSV:
\* PRN 10 is the one satellite on record, PRN 12 after the empty slot is not
C23_Witness ==
    /\ GsvReceived /\ GsvSlots = {5, 9, 13} /\ GsvListed = {5} /\ F[9] = <<>>
    /\ ret = Str(Sh.header)
    /\ GP \in DOMAIN snap.fix.satellite_data
    /\ DOMAIN snap.fix.satellite_data[GP][1] = {20, 21}
    /\ DOMAIN self.satellite_data[GP][1] = {10}
    /\ self.satellites_in_view = 1

----------------------------------------------------------------------------
(* C24: a rejected RMC sentence leaves the position data                   *)

\* the reasons gprmc() has to reject the piece: bad time or date numerics,
\* or with status "A" a bad latitude/longitude number, an invalid hemisphere
\* letter, or a bad speed or course number
RmcReason ==
    \/ F[2] # <<>> /\ ~TimeParses(F[2])
    \/ /\ F[10] # <<>>
       /\ \/ ~ParseInt(Slice(F[10], 0, 2)).ok \/ ~ParseInt(Slice(F[10], 2, 4)).ok
          \/ ~ParseInt(Slice(F[10], 4, 6)).ok
    \/ /\ F[3] = <<"A">>
       /\ \/ ~ParseInt(Slice(F[4], 0, 2)).ok \/ ~ParseFloat(SliceFrom(F[4], 2)).ok
          \/ ~ParseInt(Slice(F[6], 0, 3)).ok \/ ~ParseFloat(SliceFrom(F[6], 3)).ok
          \/ F[5] \notin {<<"N">>, <<"S">>} \/ F[7] \notin {<<"E">>, <<"W">>}
          \/ ~ParseFloat(F[8]).ok
          \/ F[9] # <<>> /\ ~ParseFloat(F[9]).ok

\* the RMC decoder has just rejected the piece
RmcRejected == Done /\ called = RMC /\ ret = None /\ Len(F) >= 10

\* C24: whenever the RMC decoder rejects a sentence (for one of its reasons:
\* bad time or date numerics, or with status "A" a bad latitude/longitude
\* number, an invalid hemisphere letter, or a bad speed or course number),
\* latitude, longitude, speed, course and the valid flag all keep the values
\* they had before the sentence, parsed_sentences does not advance and
\* update() returns nothing.
C24_RmcAllOrNothing ==
    RmcRejected =>
        /\ RmcReason
        /\ self.latitude = snap.fix.latitude
        /\ self.longitude = snap.fix.longitude
        /\ self.speed = snap.fix.speed
        /\ self.course = snap.fix.course
        /\ self.valid = snap.fix.valid
        /\ self.parsed_sentences = parsed_before

\* an RMC with a good position and no speed has been rejected after an RMC
\* that set a fix: the fix of the first one is still on record
C24_Witness ==
    /\ RmcRejected /\ F[3] = <<"A">> /\ F[8] = <<>> /\ PositionParses(F, 4)
    /\ snap.fix.valid /\ self.valid
    /\ self.latitude = <<48, [m |-> 7038, e |-> 3], <<"N">>>>
    /\ self.speed[1] = [m |-> 224, e |-> 1]
    /\ self.timestamp = <<FInt(8), FInt(18), FInt(36)>>
    /\ self.clean_sentences = 2 /\ self.parsed_sentences = 1

----------------------------------------------------------------------------
(* C25: which satellites a GSA sentence without a system ID removes        *)

\* a GSA piece without a system-ID field has just been decoded
GsaPlain == DecodedAs(GSA) /\ Len(F) <= 18

\* its talker, and the used set of that talker before the sentence
SentenceTalker == Normalised(Slice(F[1], 0, 2))
UsedBefore ==
    IF SentenceTalker \in DOMAIN snap.fix.satellites_used
    THEN snap.fix.satellites_used[SentenceTalker] ELSE {}

\* the PRNs of the signal views of talker t that share a PRN with the sentence
SharedViews(t) ==
    IF t \in DOMAIN snap.fix.satellite_data
    THEN UNION { DOMAIN snap.fix.satellite_data[t][g] :
                   g \in { h \in DOMAIN snap.fix.satellite_data[t] :
                             DOMAIN snap.fix.satellite_data[t][h] \cap GsaPrns(F) # {} } }
    ELSE {}

\* C25: after a successfully decoded GSA sentence without a system-ID field
\* and with talker T, every PRN of the sentence is in T's satellites-used
\* set; a PRN that was in T's set before and is not in the sentence is removed
\* only if it belongs to a signal view of T's own satellite-detail map that
\* shares a PRN with the sentence; the views of other talkers cause no
\* removal, and the used sets of other talkers are unchanged.
C25_GsaEviction ==
    GsaPlain =>
        /\ SentenceTalker \in DOMAIN self.satellites_used
        /\ GsaPrns(F) \subseteq self.satellites_used[SentenceTalker]
        /\ \A p \in UsedBefore \ GsaPrns(F) :
              p \notin self.satellites_used[SentenceTalker]
                  => p \in SharedViews(SentenceTalker)
        /\ \A t \in DOMAIN snap.fix.satellites_used \ {SentenceTalker} :
              /\ t \in DOMAIN self.satellites_used
              /\ self.satellites_used[t] = snap.fix.satellites_used[t]
        /\ DOMAIN self.satellites_used =
               DOMAIN snap.fix.satellites_used \cup {SentenceTalker}

----------------------------------------------------------------------------
(* C26: the fix timestamp and time_since_fix()                             *)

\* the piece reports a usable fix to the decoder that was called: RMC or GLL
\* status "A", GGA fix status nonzero, GSA fix type above none, GNS with a
\* valid-fix mode letter
UsableFix ==
    /\ sid # 0
    /\ CASE called = RMC -> Len(F) >= 3 /\ F[3] = <<"A">>
         [] called = GLL -> Len(F) >= 7 /\ F[7] = <<"A">>
         [] called = GGA -> Len(F) >= 7 /\ ParseInt(F[7]).ok /\ ParseInt(F[7]).v # 0
         [] called = GSA -> Len(F) >= 3 /\ ParseInt(F[3]).ok /\ ParseInt(F[3]).v > NO_FIX
         [] called = GNS -> Len(F) >= 7 /\
                            \E i \in 1..Len(F[7]) : F[7][i] \in {"E", "F", "R", "A", "D"}
         [] OTHER -> FALSE

\* the sentinel of time_since_fix()
NoFixYet == -1

\* the call of this step kept a new clock reading: it handed a sentence of
\* one of the types to its decoder, and the sentence reports a usable fix
RefreshedOnlyBy(types) ==
    /\ self'.fix_time # self.fix_time => (called' \in types /\ UsableFix')
    /\ (since = NoFixYet /\ since' # NoFixYet) => (called' \in types /\ UsableFix')
    /\ since # NoFixYet => since' # NoFixYet

\* a decoded sentence of one of the types that reports a usable fix leaves
\* the present clock reading as the fix timestamp
RefreshedBy(types) ==
    (Done /\ ret = Str(Sh.header) /\ called \in types /\ UsableFix) =>
        /\ self.fix_time = Clock(self)
        /\ since # NoFixYet

----------------------------------------------------------------------------
(* C27: the field set of an active sentence                                *)

\* C27: in every reachable state in which a sentence is active, the field
\* set has at least one element and the current field index is the number of
\* fields minus 1; and when a sentence completes with a valid checksum
\* (clean_sentences goes up), field 0 holds the characters received between
\* its "$" and the first "," or "*".
C27_FieldSet ==
    /\ [](self.sentence_active =>
              /\ Len(self.gps_segments) >= 1
              /\ self.active_segment = Len(self.gps_segments) - 1)
    /\ [][(self'.clean_sentences > self.clean_sentences /\ Txt'[1] = "$") =>
              self'.gps_segments[1] = Sh'.header]_vars

\* the "*" of a GGA sentence has arrived: the sixteenth field has been opened
\* and is the current one, field 0 is the header
C27_Witness ==
    /\ ch = "*" /\ self.sentence_active /\ ~self.process_crc
    /\ Len(self.gps_segments) = 16 /\ self.active_segment = 15
    /\ self.gps_segments[1] = GP \o GGA
    /\ self.gps_segments[16] = <<>>

----------------------------------------------------------------------------
(* C28: the valid flag                                                     *)

\* the call that just returned handed a sentence to the RMC or GLL decoder,
\* and the decoder accepted it
RmcOrGllDecoded == called \in {RMC, GLL} /\ ret.kind = "str"

\* the status field of the sentence on record: field 2 of RMC, 6 of GLL
StatusOnRecord ==
    At(self.gps_segments, IF called = RMC THEN 2 ELSE 6)

\* C28: in every reachable state the valid flag is true exactly when the
\* most recent successfully decoded RMC or GLL sentence had status "A", and
\* false when none has been decoded: the flag starts false, a step that
\* decodes an RMC or GLL sets it to "status is A", and no other step (GGA
\* with any fix status, GSA, GNS, VTG, GSV, ZDA, a rejected sentence, a
\* checksum failure, any other character) changes it.
C28_ValidFlag ==
    /\ ~self.valid
    /\ [][IF RmcOrGllDecoded' /\ self'.parsed_sentences > self.parsed_sentences
          THEN self'.valid = Is(StatusOnRecord', "A")
          ELSE self'.valid = self.valid]_vars
    /\ [](DecodedAs(RMC) => self.valid = (F[3] = <<"A">>))
    /\ [](DecodedAs(GLL) => self.valid = (F[7] = <<"A">>))

\* a GLL with a status other than "A" has been decoded after a valid fix and
\* has cleared the flag
C28_Witness ==
    /\ DecodedAs(GLL) /\ F[7] # <<"A">>
    /\ snap.fix.valid /\ ~self.valid
    /\ self.parsed_sentences = parsed_before + 1

====
